---- MODULE Spec2Model ----
(***************************************************************************)
(* GapSignal: the expiring cache of DataFetcher, the signal detector and   *)
(* the processing orchestrator (filter stage, per-instrument stage, batch  *)
(* stage), modelled from the Python sources.                               *)
(*                                                                         *)
(* Numbers.  Python floats are modelled as exact rationals <<n, d>> with   *)
(* d > 0 in lowest terms; IEEE rounding is not modelled.  time.time() is a *)
(* clock in whole seconds.                                                 *)
(* Strings.  Cache keys are sequences of one-character strings, so that    *)
(* str.startswith is a prefix test on characters.                          *)
(* Optional values.  Python's None is <<>> and a present value v is <<v>>. *)
(***************************************************************************)
EXTENDS Integers, Sequences, FiniteSets, TLC

VARIABLES
    now,            \* time.time()
    cache,          \* DataFetcher.cache: key -> [data, timestamp]
    inflight,       \* per caller: the entry a running _set_to_cache has built
    puts,           \* history: per key, the arguments of the put stored last
    ret,            \* the cache call that completed last: what it returned (val)
                    \* and, for a put, the entry it replaced (old)
    klines,         \* the candle series of one symbol: [high, low, close] per candle
    signal_info,    \* what detect_signal returned for klines
    processed,      \* what process_symbol returned for klines
    conf_prev,      \* the _calculate_confidence call before the last one
    conf_last,      \* the last _calculate_confidence call: arguments and result
    upstream_tickers,   \* what the exchange answers to a 24h ticker request
    refresh_pc,         \* get_processed_data: "idle", "batch" (in the loop of
                        \* process_multiple_symbols) or "done" (it returned)
    filtered_symbols,   \* get_filtered_symbols(): first component of the result
    all_ticker_data,    \* get_filtered_symbols(): second component
    dp_filtered,        \* what filter_trading_pairs(upstream_tickers) returned
    symbols,            \* the symbol list handed to process_multiple_symbols
    batch_i,            \* position of its loop in symbols
    results,            \* its local list results
    fetched,            \* history: per symbol, what binance_client.get_klines did
    processed_data,     \* what process_multiple_symbols returned
    raised_by,          \* the filter functions that raised instead of returning
    _data_cache,        \* app.py: the published bundle ({} before the first one)
    _cache_timestamp,   \* app.py: the freshness stamp of the published bundle
    call,               \* per caller: its running get_processed_data call
    returned,           \* history: the get_processed_data call that returned last
    last_published,     \* history: the bundle last handed to _data_cache
    last_publisher,     \* history: the caller that assigned _data_cache last
    worker_pc,          \* _background_worker: "ready", "calling" or "sleeping"
    worker_wake,        \* the clock value at which its time.sleep ends
    worker_slept,       \* history: the argument of its last time.sleep
    ema_values,         \* analyze_trend: the map period -> latest EMA it is given
    trend_info,         \* what analyze_trend returned for klines and ema_values
    key_calls,          \* _get_cache_key: the arguments of two calls, in call-site order
    key_results,        \* what _get_cache_key returned for each of the two
    stats_call,         \* get_cache_stats in progress: the total_entries it has read
    rsi_prices,         \* calculate_rsi: the closing prices it is given
    rsi_result,         \* what calculate_rsi returned for them
    enabled,            \* telegram_notifier.enabled
    notify_count,       \* history: per side and signature in the published list,
                        \* the notify_signal calls since it entered the list
    running,            \* GapSignalSystem.running
    background_thread,  \* GapSignalSystem.background_thread: a thread id, 0 for None
    threads,            \* per thread id: where the _background_worker it runs is
    main_pc,            \* the main thread: "idle", or "joining" inside stop()
    late_cycles         \* history: per thread, the refresh cycles it ran while
                        \* running was False

cacheVars == <<now, cache, inflight, puts, ret>>
signalVars == <<klines, signal_info, processed>>
confVars == <<conf_prev, conf_last>>
pipeVars == <<upstream_tickers, refresh_pc, filtered_symbols, all_ticker_data,
              dp_filtered, symbols, batch_i, results, fetched, processed_data,
              raised_by>>
publishVars == <<_data_cache, _cache_timestamp>>
refreshVars == <<call, returned, last_published, last_publisher, worker_pc,
                 worker_wake, worker_slept>>
trendVars == <<ema_values, trend_info>>
keyVars == <<key_calls, key_results>>
statsVars == <<stats_call>>
rsiVars == <<rsi_prices, rsi_result>>
notifyVars == <<enabled, notify_count>>
lifeVars == <<running, background_thread, threads, main_pc, late_cycles>>
laterVars == <<keyVars, statsVars, rsiVars, notifyVars, lifeVars>>
\* The same without one group
laterButKey == <<statsVars, rsiVars, notifyVars, lifeVars>>
laterButStats == <<keyVars, rsiVars, notifyVars, lifeVars>>
laterButRsi == <<keyVars, statsVars, notifyVars, lifeVars>>
laterButNotify == <<keyVars, statsVars, rsiVars, lifeVars>>
laterButLife == <<keyVars, statsVars, rsiVars, notifyVars>>
vars == <<now, cache, inflight, puts, ret, klines, signal_info, processed,
          conf_prev, conf_last, upstream_tickers, refresh_pc, filtered_symbols,
          all_ticker_data, dp_filtered, symbols, batch_i, results, fetched,
          processed_data, raised_by, _data_cache, _cache_timestamp, call, returned,
          last_published, last_publisher, worker_pc, worker_wake, worker_slept,
          ema_values, trend_info, key_calls, key_results, stats_call,
          rsi_prices, rsi_result, enabled, notify_count, running,
          background_thread, threads, main_pc, late_cycles>>

None == <<>>
Some(v) == <<v>>

\* Python's {}
EmptyDict == [f \in {} |-> None]

(***************************************************************************)
(* Expiring cache (app/api/data_fetcher.py)                                *)
(***************************************************************************)

cache_duration == 300

\* Bounds of the cache model.
MaxTicks == 2

TickStep == cache_duration \div 2
MaxTime == MaxTicks * TickStep
\* The threads that use the fetcher: the background worker and a web request
\* handler.  The data a caller stores is tagged with the caller's name.
Callers == {"worker", "web"}

\* Bound: the threads start_background_tasks may create in one run
MaxThreads == 3
ThreadIds == 1..MaxThreads
DataOf(c) == c

\* Characters in code-point order, as Python's sorted() compares them.
Alphabet == <<":", "B", "_", "a", "f", "i", "k", "q", "s", "t">>
Rank(c) == CHOOSE i \in 1..Len(Alphabet) : Alphabet[i] = c

\* s < t for strings, as Python compares them (lexicographic by code point).
RECURSIVE StrLess(_, _)
StrLess(s, t) ==
    IF t = <<>> THEN FALSE
    ELSE IF s = <<>> THEN TRUE
    ELSE IF Head(s) = Head(t) THEN StrLess(Tail(s), Tail(t))
    ELSE Rank(Head(s)) < Rank(Head(t))

\* sorted(kwargs.items()): the (name, value) pairs in ascending order of name.
RECURSIVE SortedItems(_)
SortedItems(kwargs) ==
    IF kwargs = {} THEN <<>>
    ELSE LET first == CHOOSE p \in kwargs : \A q \in kwargs : q = p \/ StrLess(p[1], q[1])
         IN <<first>> \o SortedItems(kwargs \ {first})

\* ":".join(parts)
RECURSIVE Join(_)
Join(parts) ==
    IF parts = <<>> THEN <<>>
    ELSE IF Len(parts) = 1 THEN parts[1]
    ELSE parts[1] \o <<":">> \o Join(Tail(parts))

\* DataFetcher._get_cache_key: kwargs is a set of <<name, value>> pairs with
\* distinct names (Python keyword arguments).
get_cache_key(key_type, kwargs) ==
    LET items == SortedItems(kwargs)
        parts == <<key_type>> \o [i \in 1..Len(items) |-> items[i][1] \o <<"_">> \o items[i][2]]
    IN Join(parts)

\* Mutant of the sort of _get_cache_key: the items stay in call-site order.
sorted_items_call_order(items) == items

\* sorted(kwargs.items()) for keyword arguments given as the sequence of
\* (name, value) pairs in call-site order, which is the order of the kwargs
\* dict: each item is put before the first item with a greater name.
RECURSIVE sorted_items(_)
sorted_items(items) ==
    IF items = <<>> THEN <<>>
    ELSE LET front == sorted_items(SubSeq(items, 1, Len(items) - 1))
             item == items[Len(items)]
             smaller == SelectSeq(front, LAMBDA q : ~StrLess(item[1], q[1]))
             greater == SelectSeq(front, LAMBDA q : StrLess(item[1], q[1]))
         IN smaller \o <<item>> \o greater

\* DataFetcher._get_cache_key(key_type, **kwargs) for such a call
_get_cache_key(key_type, kwargs) ==
    LET items == sorted_items(kwargs)
        parts == <<key_type>> \o [i \in 1..Len(items) |-> items[i][1] \o <<"_">> \o items[i][2]]
    IN Join(parts)

\* The keys the fetcher builds: filtered_symbols ("fs"), futures_ticker_24h for
\* symbol=all ("ft", s=a) and klines for symbol B, interval q ("k", s=B, i=q).
KeyFiltered == get_cache_key(<<"f", "s">>, {})
KeyTicker == get_cache_key(<<"f", "t">>, {<<<<"s">>, <<"a">>>>})
KeyKlines == get_cache_key(<<"k">>, {<<<<"s">>, <<"B">>>>, <<<<"i">>, <<"q">>>>})
CacheKeys == {KeyFiltered, KeyTicker, KeyKlines}

\* str.startswith
StartsWith(s, prefix) ==
    /\ Len(prefix) <= Len(s)
    /\ SubSeq(s, 1, Len(prefix)) = prefix

\* The key_prefix arguments tried: None, "", and strings that are a proper
\* prefix of one or two keys, a whole key, an inner substring, and no prefix.
ClearPrefixes ==
    {None, Some(<<>>), Some(<<"f">>), Some(<<"f", "t">>), Some(<<"k">>),
     Some(KeyFiltered), Some(<<"s">>)}

\* Mutant of _is_cache_valid: the boundary age counts as fresh (<= for <).
is_cache_valid_inclusive(c, cache_key, t) ==
    IF cache_key \notin DOMAIN c THEN FALSE
    ELSE t - c[cache_key].timestamp <= cache_duration

\* DataFetcher._is_cache_valid at clock t
is_cache_valid(c, cache_key, t) ==
    IF cache_key \notin DOMAIN c THEN FALSE
    ELSE t - c[cache_key].timestamp < cache_duration

\* DataFetcher._get_from_cache at clock t
get_from_cache(c, cache_key, t) ==
    IF is_cache_valid(c, cache_key, t) THEN Some(c[cache_key].data) ELSE None

\* The entry _set_to_cache builds before it stores it.
NewEntry(data, t) == [data |-> data, timestamp |-> t]

\* Mutant of _set_to_cache: an existing entry keeps its timestamp (a merge).
set_to_cache_keep_timestamp(c, cache_key, entry) ==
    [k \in DOMAIN c \cup {cache_key} |->
        IF k # cache_key THEN c[k]
        ELSE IF k \in DOMAIN c THEN NewEntry(entry.data, c[k].timestamp)
        ELSE entry]

\* The dict store of _set_to_cache: self.cache[cache_key] = entry
set_to_cache(c, cache_key, entry) ==
    [k \in DOMAIN c \cup {cache_key} |-> IF k = cache_key THEN entry ELSE c[k]]

\* Mutant of clear_cache: only the key equal to the prefix is deleted.
keys_to_remove_exact(c, key_prefix) ==
    IF key_prefix = None THEN DOMAIN c
    ELSE {k \in DOMAIN c : k = key_prefix[1]}

\* DataFetcher.clear_cache: the keys it deletes
keys_to_remove(c, key_prefix) ==
    IF key_prefix = None THEN DOMAIN c
    ELSE {k \in DOMAIN c : StartsWith(k, key_prefix[1])}

\* DataFetcher.clear_cache: the cache it leaves
clear_cache(c, key_prefix) ==
    [k \in DOMAIN c \ keys_to_remove(c, key_prefix) |-> c[k]]

\* get_cache_stats: the test that counts an entry as valid at clock t
stats_entry_valid(entry, t) == t - entry.timestamp < cache_duration

\* get_cache_stats: the dict returned for the total_entries read at line 257
\* and the loop over the entries of c at clock t (memory_usage_kb left out)
get_cache_stats(total_entries, c, t) ==
    [total_entries |-> total_entries,
     valid_entries |-> Cardinality({k \in DOMAIN c : stats_entry_valid(c[k], t)}),
     expired_entries |-> Cardinality({k \in DOMAIN c : ~stats_entry_valid(c[k], t)}),
     cache_duration_seconds |-> cache_duration]

(***************************************************************************)
(* Exact arithmetic for Python floats: <<n, d>> with d > 0, lowest terms   *)
(***************************************************************************)

Abs(x) == IF x < 0 THEN -x ELSE x

RECURSIVE GCD(_, _)
GCD(a, b) == IF b = 0 THEN a ELSE GCD(b, a % b)

\* n / d for d # 0, normalised
Rat(n, d) ==
    LET g == GCD(Abs(n), Abs(d))
        sgn == IF d < 0 THEN -1 ELSE 1
    IN <<(sgn * n) \div g, (sgn * d) \div g>>

ToFloat(x) == Rat(x, 1)
Zero == ToFloat(0)
Half == Rat(1, 2)
One == ToFloat(1)
Hundred == ToFloat(100)
RatLess(a, b) == a[1] * b[2] < b[1] * a[2]
RatLeq(a, b) == a[1] * b[2] <= b[1] * a[2]
RatAdd(a, b) == Rat(a[1] * b[2] + b[1] * a[2], a[2] * b[2])
RatSub(a, b) == Rat(a[1] * b[2] - b[1] * a[2], a[2] * b[2])
RatMul(a, b) == Rat(a[1] * b[1], a[2] * b[2])
\* a / b; Python raises ZeroDivisionError for b = 0, which callers test first
RatDiv(a, b) == Rat(a[1] * b[2], a[2] * b[1])
RatNeg(a) == <<-a[1], a[2]>>
RatAbs(a) == <<Abs(a[1]), a[2]>>
RatMin(a, b) == IF RatLess(b, a) THEN b ELSE a

(***************************************************************************)
(* Signal detector (app/core/signal_detector.py)                           *)
(***************************************************************************)

\* SignalDetector.__init__ with the default configuration
lookback_periods == 3
change_threshold == ToFloat(1)

\* SignalDetector._is_strictly_increasing
is_strictly_increasing(values) ==
    \A i \in 1..(Len(values) - 1) : RatLess(values[i], values[i + 1])

\* SignalDetector._is_strictly_decreasing
is_strictly_decreasing(values) ==
    \A i \in 1..(Len(values) - 1) : RatLess(values[i + 1], values[i])

\* Mutant of _calculate_confidence: the excess is not capped at the threshold.
calculate_confidence_uncapped(change, threshold) ==
    IF RatLeq(change, threshold) THEN Half
    ELSE RatAdd(Half, RatMul(RatDiv(RatSub(change, threshold), threshold), Half))

\* SignalDetector._calculate_confidence
calculate_confidence(change, threshold) ==
    IF RatLeq(change, threshold) THEN Half
    ELSE LET excess == RatMin(RatSub(change, threshold), threshold)
         IN RatAdd(Half, RatMul(RatDiv(excess, threshold), Half))

\* klines[-lookback_periods:]: the whole list when it is shorter
recent_klines(ks) ==
    SubSeq(ks, IF Len(ks) > lookback_periods THEN Len(ks) - lookback_periods + 1 ELSE 1,
           Len(ks))

\* Mutant of the test before the early return: only an empty list returns early.
too_few_candles_empty_only(ks) == ks = <<>>

\* len(klines) < self.lookback_periods
too_few_candles(ks) == Len(ks) < lookback_periods

\* detect_signal raises ZeroDivisionError when the window's first close is 0.
detect_signal_raises(ks) ==
    /\ ~too_few_candles(ks)
    /\ ToFloat(recent_klines(ks)[1].close) = Zero

\* 'increasing' if inc else 'decreasing' if dec else 'mixed'
sequence_label(inc, dec) ==
    IF inc THEN "increasing" ELSE IF dec THEN "decreasing" ELSE "mixed"

\* The details dict of the early return
EmptyDetails == [f \in {} |-> "mixed"]

\* Mutant of the buy test: >= for > (the threshold itself already signals).
buy_condition_inclusive(cumulative_change, low_inc, close_inc, high_inc) ==
    /\ RatLeq(change_threshold, cumulative_change)
    /\ low_inc /\ close_inc /\ high_inc

\* detect_signal: the buy test
buy_condition(cumulative_change, low_inc, close_inc, high_inc) ==
    /\ RatLess(change_threshold, cumulative_change)
    /\ low_inc /\ close_inc /\ high_inc

\* detect_signal: the sell test (the elif branch)
sell_condition(cumulative_change, low_dec, close_dec, high_dec) ==
    /\ RatLess(cumulative_change, RatNeg(change_threshold))
    /\ low_dec /\ close_dec /\ high_dec

\* Mutant of detect_signal's result: a detected signal reports the raw
\* cumulative change as its confidence.
signal_confidence_raw(buy, sell, cumulative_change) ==
    IF buy \/ sell THEN RatAbs(cumulative_change) ELSE Zero

\* detect_signal: the confidence it reports
signal_confidence(buy, sell, cumulative_change) ==
    IF buy THEN calculate_confidence(cumulative_change, change_threshold)
    ELSE IF sell THEN calculate_confidence(RatAbs(cumulative_change), change_threshold)
    ELSE Zero

\* SignalDetector.detect_signal, for a series on which it does not raise
detect_signal(ks) ==
    IF too_few_candles(ks)
    THEN [signal |-> "none", confidence |-> Zero, cumulative_change |-> Zero,
          details |-> EmptyDetails]
    ELSE
    LET recent == recent_klines(ks)
        lows == [i \in 1..Len(recent) |-> ToFloat(recent[i].low)]
        closes == [i \in 1..Len(recent) |-> ToFloat(recent[i].close)]
        highs == [i \in 1..Len(recent) |-> ToFloat(recent[i].high)]
        start_close == closes[1]
        end_close == closes[Len(closes)]
        cumulative_change ==
            RatMul(RatDiv(RatSub(end_close, start_close), start_close), Hundred)
        low_increasing == is_strictly_increasing(lows)
        low_decreasing == is_strictly_decreasing(lows)
        close_increasing == is_strictly_increasing(closes)
        close_decreasing == is_strictly_decreasing(closes)
        high_increasing == is_strictly_increasing(highs)
        high_decreasing == is_strictly_decreasing(highs)
        buy == buy_condition(cumulative_change, low_increasing, close_increasing,
                             high_increasing)
        sell == /\ ~buy
                /\ sell_condition(cumulative_change, low_decreasing, close_decreasing,
                                  high_decreasing)
    IN [signal |-> IF buy THEN "buy" ELSE IF sell THEN "sell" ELSE "none",
        confidence |-> signal_confidence(buy, sell, cumulative_change),
        cumulative_change |-> cumulative_change,
        details |-> [low_sequence |-> sequence_label(low_increasing, low_decreasing),
                     close_sequence |-> sequence_label(close_increasing, close_decreasing),
                     high_sequence |-> sequence_label(high_increasing, high_decreasing),
                     lookback_periods |-> lookback_periods,
                     change_threshold |-> change_threshold]]

(***************************************************************************)
(* Trend classification (signal_detector.analyze_trend)                    *)
(***************************************************************************)

\* Mutant of the bullish alignment test: >= for >.
bullish_alignment_with_ties(values, periods) ==
    \A p, q \in periods :
        (p < q /\ ~\E r \in periods : p < r /\ r < q) => RatLeq(values[q], values[p])

\* all(ema_values_list[i][1] > ema_values_list[i+1][1] ...): over the periods
\* in ascending order, each value is greater than the next
bullish_alignment(values, periods) ==
    \A p, q \in periods :
        (p < q /\ ~\E r \in periods : p < r /\ r < q) => RatLess(values[q], values[p])

\* all(ema_values_list[i][1] < ema_values_list[i+1][1] ...)
bearish_alignment(values, periods) ==
    \A p, q \in periods :
        (p < q /\ ~\E r \in periods : p < r /\ r < q) => RatLess(values[p], values[q])

\* Mutant of the count test: one period is enough.
enough_periods_one(count) == count >= 1

\* if len(ema_positions) >= 2
enough_periods(count) == count >= 2

\* SignalDetector.analyze_trend
analyze_trend(ks, emas) ==
    IF ks = <<>> THEN [trend |-> "neutral", ema_positions |-> EmptyDict]
    ELSE
    LET latest_close == ToFloat(ks[Len(ks)].close)
        periods == {p \in DOMAIN emas : emas[p] # Zero}
        diff_percent(p) ==
            RatMul(RatDiv(RatSub(latest_close, emas[p]), emas[p]), Hundred)
        ema_positions ==
            [p \in periods |->
                [value |-> emas[p],
                 diff_percent |-> diff_percent(p),
                 position |-> IF RatLess(Zero, diff_percent(p)) THEN "above" ELSE "below"]]
        values == [p \in periods |-> ema_positions[p].value]
        all_above == \A p \in periods : ema_positions[p].position = "above"
        all_below == \A p \in periods : ema_positions[p].position = "below"
        trend ==
            IF enough_periods(Cardinality(periods))
            THEN IF all_above THEN "strong_bullish"
                 ELSE IF all_below THEN "strong_bearish"
                 ELSE IF bullish_alignment(values, periods) THEN "bullish"
                 ELSE IF bearish_alignment(values, periods) THEN "bearish"
                 ELSE "neutral"
            ELSE "neutral"
    IN [trend |-> trend, ema_positions |-> ema_positions, price |-> latest_close]

(***************************************************************************)
(* Per-instrument stage (app/core/data_processor.py)                       *)
(***************************************************************************)

\* process_symbol: the number of candles it needs
min_klines == 10

\* Mutant of the length test: the detector's window is taken as enough data.
insufficient_data_lookback(ks) == ks = <<>> \/ Len(ks) < lookback_periods

\* process_symbol: not klines or len(klines) < 10
insufficient_data(ks) == ks = <<>> \/ Len(ks) < min_klines

\* process_symbol: the dict of an error return
ErrorEntry(symbol, message) ==
    [symbol |-> symbol, error |-> message, signal |-> "none", confidence |-> Zero]

\* The indicator values (EMA, trend, RSI, ATR, Bollinger, MACD) are not
\* computed here: the field is present and holds this token.
Computed == "computed"

\* DataProcessor.process_symbol at clock t.  For numeric candles the only
\* exception inside the try block is detect_signal's ZeroDivisionError.
process_symbol(symbol, ks, t) ==
    IF insufficient_data(ks) THEN ErrorEntry(symbol, "Insufficient data")
    ELSE IF detect_signal_raises(ks) THEN ErrorEntry(symbol, "float division by zero")
    ELSE LET info == detect_signal(ks)
         IN [symbol |-> symbol,
             current_price |-> ToFloat(ks[Len(ks)].close),
             signal |-> info.signal,
             confidence |-> info.confidence,
             cumulative_change |-> info.cumulative_change,
             signal_details |-> info.details,
             ema_values |-> Computed,
             ema_differences |-> Computed,
             trend |-> Computed,
             trend_details |-> Computed,
             rsi |-> Computed,
             atr |-> Computed,
             bollinger_bands |-> Computed,
             macd |-> Computed,
             volume_24h |-> Zero,
             price_change_24h |-> Zero,
             timestamp |-> t]

(***************************************************************************)
(* Filter stage (data_fetcher.get_filtered_symbols and                     *)
(* data_processor.filter_trading_pairs)                                    *)
(***************************************************************************)

\* A ticker field as the exchange sends it: a numeric string, a string that
\* is no number, or a key that is absent.
Num(x) == <<"num", x>>
Bad == <<"bad">>
Missing == <<"missing">>
\* ... or a JSON null (None)
Null == <<"null">>

\* float(ticker.get(name, 0)) and int(ticker.get(name, 0)) raise ValueError
\* on a string that is no number
float_raises(field) == field[1] = "bad"
\* ... and TypeError on None
float_type_error(field) == field[1] = "null"
\* the value float(ticker.get(name, 0)) returns otherwise
float_of(field) == IF field[1] = "missing" THEN Zero ELSE field[2]

\* Config defaults: volume_threshold_usdt, price_change_threshold_percent
volume_threshold == 50000000
price_change_threshold == ToFloat(1)

\* Mutant of the threshold test: both bounds exclusive.
passes_thresholds_strict(quote_volume, price_change) ==
    /\ RatLess(ToFloat(volume_threshold), quote_volume)
    /\ RatLess(price_change_threshold, RatAbs(price_change))

\* quote_volume >= volume_threshold and abs(price_change) >= price_change_threshold
passes_thresholds(quote_volume, price_change) ==
    /\ RatLeq(ToFloat(volume_threshold), quote_volume)
    /\ RatLeq(price_change_threshold, RatAbs(price_change))

\* The loop body of get_filtered_symbols keeps the ticker: the two conversions
\* succeed and the thresholds are met (ValueError skips the ticker).
fetcher_keeps(ticker) ==
    /\ ~float_raises(ticker.quoteVolume) /\ ~float_type_error(ticker.quoteVolume)
    /\ ~float_raises(ticker.priceChangePercent)
    /\ ~float_type_error(ticker.priceChangePercent)
    /\ passes_thresholds(float_of(ticker.quoteVolume), float_of(ticker.priceChangePercent))

\* The loop body of get_filtered_symbols lets a TypeError escape: the except
\* clause names ValueError and KeyError only.  Both conversions run before the
\* threshold test.
fetcher_raises(ticker) ==
    \/ float_type_error(ticker.quoteVolume)
    \/ /\ ~float_raises(ticker.quoteVolume)
       /\ float_type_error(ticker.priceChangePercent)

\* The loop body of filter_trading_pairs keeps the ticker: as above, and the
\* five further conversions of the appended dict succeed.
processor_keeps(ticker) ==
    /\ fetcher_keeps(ticker)
    /\ ~float_raises(ticker.lastPrice)
    /\ ~float_raises(ticker.highPrice)
    /\ ~float_raises(ticker.lowPrice)
    /\ ~float_raises(ticker.volume)
    /\ ~float_raises(ticker.count)

\* The loop body of filter_trading_pairs lets a TypeError escape: as above,
\* or the ticker meets the thresholds and, of the five further conversions,
\* the first that fails is given None.
processor_raises(ticker) ==
    \/ fetcher_raises(ticker)
    \/ /\ fetcher_keeps(ticker)
       /\ LET further == <<ticker.lastPrice, ticker.highPrice, ticker.lowPrice,
                           ticker.volume, ticker.count>>
          IN \E k \in 1..Len(further) :
                /\ float_type_error(further[k])
                /\ \A j \in 1..(k - 1) :
                      ~float_raises(further[j]) /\ ~float_type_error(further[j])

\* The dict filter_trading_pairs appends
filtered_entry(ticker) ==
    [symbol |-> ticker.symbol,
     quote_volume |-> float_of(ticker.quoteVolume),
     price_change_percent |-> float_of(ticker.priceChangePercent),
     last_price |-> float_of(ticker.lastPrice),
     high_price |-> float_of(ticker.highPrice),
     low_price |-> float_of(ticker.lowPrice),
     volume |-> float_of(ticker.volume),
     trades |-> float_of(ticker.count)]

\* list.sort(key=..., reverse=True): a stable sort, descending in keys[x].
\* The element inserted last goes behind every element whose key is >= its own.
InsertDescending(sorted, x, keys) ==
    LET p == Cardinality({j \in 1..Len(sorted) : RatLeq(keys[x], keys[sorted[j]])})
    IN SubSeq(sorted, 1, p) \o <<x>> \o SubSeq(sorted, p + 1, Len(sorted))

RECURSIVE SortDescending(_, _)
SortDescending(seq, keys) ==
    IF seq = <<>> THEN <<>>
    ELSE InsertDescending(SortDescending(SubSeq(seq, 1, Len(seq) - 1), keys),
                          seq[Len(seq)], keys)

Range(seq) == {seq[i] : i \in 1..Len(seq)}

\* DataProcessor.filter_trading_pairs raises
filter_trading_pairs_raises(ticker_data) ==
    \E i \in 1..Len(ticker_data) :
        /\ processor_raises(ticker_data[i])
        /\ \A j \in 1..(i - 1) : ~processor_raises(ticker_data[j])

\* DataProcessor.filter_trading_pairs, when it does not raise
filter_trading_pairs(ticker_data) ==
    LET kept == SelectSeq(ticker_data, processor_keeps)
        filtered == [i \in 1..Len(kept) |-> filtered_entry(kept[i])]
    IN SortDescending(filtered, [x \in Range(filtered) |-> x.quote_volume])

\* Mutant of the store condition: an empty result is stored as well.
stores_result_always(use_cache, data) == use_cache

\* if use_cache and <result>: an empty list is falsy
stores_result(use_cache, data) == use_cache /\ data # <<>>

\* DataFetcher.get_futures_ticker_24h(symbol=None, use_cache) at clock t, when
\* the exchange answers with the list upstream ([] on an API error):
\* the tickers returned, the cache left and whether the client was asked.
get_futures_ticker_24h(c, t, upstream, use_cache) ==
    IF use_cache /\ get_from_cache(c, KeyTicker, t) # None
    THEN [tickers |-> get_from_cache(c, KeyTicker, t)[1], cache |-> c,
          upstream_called |-> FALSE]
    ELSE [tickers |-> upstream,
          cache |-> IF stores_result(use_cache, upstream)
                    THEN set_to_cache(c, KeyTicker, NewEntry(upstream, t))
                    ELSE c,
          upstream_called |-> TRUE]

\* DataFetcher.get_filtered_symbols(use_cache) raises: it is not served from
\* the cache and a ticker of the list lets a TypeError escape.
get_filtered_symbols_raises(c, t, upstream, use_cache) ==
    /\ ~(use_cache /\ get_from_cache(c, KeyFiltered, t) # None)
    /\ \E i \in 1..Len(get_futures_ticker_24h(c, t, upstream, use_cache).tickers) :
          fetcher_raises(get_futures_ticker_24h(c, t, upstream, use_cache).tickers[i])

\* DataFetcher.get_filtered_symbols(use_cache) at clock t, when it does not
\* raise: the tuple (filtered_symbols, ticker_data) returned, the cache left
\* and whether the client was asked.
get_filtered_symbols(c, t, upstream, use_cache) ==
    IF use_cache /\ get_from_cache(c, KeyFiltered, t) # None
    THEN [result |-> get_from_cache(c, KeyFiltered, t)[1], cache |-> c,
          upstream_called |-> FALSE]
    ELSE LET fetch == get_futures_ticker_24h(c, t, upstream, use_cache)
             ticker_data == fetch.tickers
             filtered == SelectSeq(ticker_data, fetcher_keeps)
             result == <<filtered, ticker_data>>
         IN [result |-> result,
             cache |-> IF stores_result(use_cache, filtered)
                       THEN set_to_cache(fetch.cache, KeyFiltered, NewEntry(result, t))
                       ELSE fetch.cache,
             upstream_called |-> fetch.upstream_called]

(***************************************************************************)
(* Batch stage (data_processor.process_multiple_symbols)                   *)
(***************************************************************************)

\* app.py builds DataProcessor(binance_client) with a client
binance_client_set == TRUE

\* ticker_lookup = {t['symbol']: t for t in ticker_data}: the last ticker of a
\* symbol wins
in_ticker_lookup(ticker_data, symbol) ==
    \E i \in 1..Len(ticker_data) : ticker_data[i].symbol = symbol
ticker_lookup(ticker_data, symbol) ==
    LET last == CHOOSE i \in 1..Len(ticker_data) :
                    /\ ticker_data[i].symbol = symbol
                    /\ \A j \in (i + 1)..Len(ticker_data) : ticker_data[j].symbol # symbol
    IN ticker_data[last]

\* What binance_client.get_klines did for one symbol: returned a series ([] on
\* an API error) or raised an exception of another kind.
Returned(ks) == [raised |-> FALSE, klines |-> ks]
FetchRaised == [raised |-> TRUE, klines |-> <<>>]

\* One pass of the loop body raises (and the except clause skips the symbol):
\* the fetch raised, or a ticker field of the symbol is no number.
iteration_raises(symbol, ticker_data, outcome) ==
    \/ outcome.raised
    \/ /\ in_ticker_lookup(ticker_data, symbol)
       /\ \/ float_raises(ticker_lookup(ticker_data, symbol).quoteVolume)
          \/ float_raises(ticker_lookup(ticker_data, symbol).priceChangePercent)

\* result['volume_24h'] = ...; result['price_change_24h'] = ...
with_ticker_data(result, ticker) ==
    [f \in DOMAIN result \cup {"volume_24h", "price_change_24h"} |->
        IF f = "volume_24h" THEN float_of(ticker.quoteVolume)
        ELSE IF f = "price_change_24h" THEN float_of(ticker.priceChangePercent)
        ELSE result[f]]

\* The result one pass of the loop body appends when it does not raise
iteration_result(symbol, ticker_data, outcome, t) ==
    LET result == process_symbol(symbol, outcome.klines, t)
    IN IF in_ticker_lookup(ticker_data, symbol)
       THEN with_ticker_data(result, ticker_lookup(ticker_data, symbol))
       ELSE result

\* Mutant of the except clause: break, the rest of the batch is dropped.
after_exception_break(i, n) == n + 1

\* except Exception: ... continue -- the loop goes on with the next symbol
after_exception(i, n) == i + 1

\* Mutant of the final sort: the list is left in loop order.
sort_by_confidence_skipped(rs) == rs

\* results.sort(key=lambda x: x.get('confidence', 0), reverse=True)
sort_by_confidence(rs) ==
    SortDescending(rs, [x \in Range(rs) |-> x.confidence])

(***************************************************************************)
(* Segmentation, summary and the published bundle                          *)
(* (data_processor.filter_by_signal, generate_summary; app.py)             *)
(***************************************************************************)

\* get_processed_data: min_confidence=0.6
min_confidence == Rat(3, 5)

\* Mutant of the confidence test of filter_by_signal: > for >=.
meets_min_confidence_strict(confidence, minimum) == RatLess(minimum, confidence)

\* data.get('confidence', 0) >= min_confidence
meets_min_confidence(confidence, minimum) == RatLeq(minimum, confidence)

\* filter_by_signal: the entries of one signal tag, sorted by confidence
signals_tagged(batch, tag, minimum) ==
    LET selected(data) == /\ data.signal = tag
                          /\ meets_min_confidence(data.confidence, minimum)
    IN sort_by_confidence(SelectSeq(batch, selected))

\* DataProcessor.filter_by_signal: (buy_signals, sell_signals)
filter_by_signal(batch, minimum) ==
    <<signals_tagged(batch, "buy", minimum), signals_tagged(batch, "sell", minimum)>>

\* sum(...) over a list of floats
RECURSIVE RatSum(_)
RatSum(xs) == IF xs = <<>> THEN Zero ELSE RatAdd(RatSum(SubSeq(xs, 1, Len(xs) - 1)), xs[Len(xs)])

\* max(...) over a non-empty list of floats
RatMax(xs) == CHOOSE m \in Range(xs) : \A x \in Range(xs) : RatLeq(x, m)

\* sum(xs) / len(xs) if xs else 0
mean_or_zero(xs) == IF xs = <<>> THEN Zero ELSE RatDiv(RatSum(xs), ToFloat(Len(xs)))

\* [d.get(field, 0) for d in processed_data if d.get(field)]: the entries that
\* have the field with a value other than 0
truthy_values(batch, field) ==
    LET has(data) == field \in DOMAIN data /\ data[field] # Zero
        kept == SelectSeq(batch, has)
    IN [i \in 1..Len(kept) |-> kept[i][field]]

\* [d.get('confidence', 0) for d in processed_data if d.get('signal') == tag]
confidences_tagged(batch, tag) ==
    LET tagged(data) == data.signal = tag
        kept == SelectSeq(batch, tagged)
    IN [i \in 1..Len(kept) |-> kept[i].confidence]

\* Mutant of avg_price_change: the mean of the magnitudes.
avg_price_change_absolute(price_changes) ==
    mean_or_zero([i \in 1..Len(price_changes) |-> RatAbs(price_changes[i])])

\* generate_summary: avg_price_change
avg_price_change(price_changes) == mean_or_zero(price_changes)

\* DataProcessor.generate_summary at clock t
generate_summary(batch, t) ==
    LET volumes == truthy_values(batch, "volume_24h")
        price_changes == truthy_values(batch, "price_change_24h")
    IN [total_symbols |-> Len(batch),
        buy_signals |-> Len(confidences_tagged(batch, "buy")),
        sell_signals |-> Len(confidences_tagged(batch, "sell")),
        buy_confidence_avg |-> mean_or_zero(confidences_tagged(batch, "buy")),
        sell_confidence_avg |-> mean_or_zero(confidences_tagged(batch, "sell")),
        avg_volume |-> mean_or_zero(volumes),
        max_volume |-> IF volumes = <<>> THEN Zero ELSE RatMax(volumes),
        avg_price_change |-> avg_price_change(price_changes),
        max_price_change |-> IF price_changes = <<>> THEN Zero
                             ELSE RatMax([i \in 1..Len(price_changes) |->
                                            RatAbs(price_changes[i])]),
        timestamp |-> t]

\* get_processed_data: the dict it assigns to _data_cache, for a processed
\* batch and the current_time read on entry
new_bundle(batch, current_time, t) ==
    LET signals == filter_by_signal(batch, min_confidence)
    IN [processed_data |-> batch,
        buy_signals |-> signals[1],
        sell_signals |-> signals[2],
        summary |-> generate_summary(batch, t),
        timestamp |-> current_time,
        symbol_count |-> Len(batch),
        buy_count |-> Len(signals[1]),
        sell_count |-> Len(signals[2])]

(***************************************************************************)
(* The refresh entry point and its callers (app.py get_processed_data,     *)
(* api_refresh; main.py _background_worker)                                *)
(***************************************************************************)

CACHE_DURATION == 300
refresh_interval == 300
failure_backoff == 60

\* Mutant of the test on entry: force_refresh is not looked at.
serves_cached_ignoring_force(force_refresh, data_cache, cache_timestamp, current_time) ==
    /\ DOMAIN data_cache # {}
    /\ current_time - cache_timestamp < CACHE_DURATION

\* not force_refresh and _data_cache and
\* (current_time - _cache_timestamp) < CACHE_DURATION
serves_cached(force_refresh, data_cache, cache_timestamp, current_time) ==
    /\ ~force_refresh
    /\ DOMAIN data_cache # {}
    /\ current_time - cache_timestamp < CACHE_DURATION

\* The dict the except branch of get_processed_data returns
error_result(current_time, message) ==
    [processed_data |-> <<>>, buy_signals |-> <<>>, sell_signals |-> <<>>,
     summary |-> EmptyDict, timestamp |-> current_time, symbol_count |-> 0,
     buy_count |-> 0, sell_count |-> 0, error |-> message]

\* Mutant of the publishing assignment: the published dict is updated in
\* place, and a reader can see it with the new lists and the old counts.
assign_data_cache_in_place(data_cache, bundle) ==
    IF DOMAIN data_cache = {} THEN bundle
    ELSE [bundle EXCEPT !.symbol_count = data_cache.symbol_count,
                        !.buy_count = data_cache.buy_count,
                        !.sell_count = data_cache.sell_count]

\* _data_cache = {...}: the global is bound to the new dict
assign_data_cache(data_cache, bundle) == bundle

\* Mutant of the except branch: the error dict is published.
data_cache_after_failure_replaced(data_cache, error) == error

\* The except branch returns its dict and assigns no global.
data_cache_after_failure(data_cache, error) == data_cache

\* get_processed_data lets an exception escape to its caller: never, its try
\* block spans the whole cycle and catches Exception.
get_processed_data_raises(cycle_failed) == FALSE

\* previous_cache.get(field, []) if previous_cache else []
previous_signals(previous_cache, field) ==
    IF field \in DOMAIN previous_cache THEN previous_cache[field] ELSE <<>>

\* get_signal_signature: the string built of symbol, confidence and
\* current_price, here the triple of the three
get_signal_signature(signal) ==
    <<signal.symbol, signal.confidence, signal.current_price>>

\* {get_signal_signature(s) for s in signals}
signature_set(signals) == {get_signal_signature(signals[i]) : i \in DOMAIN signals}

\* previous_buy_set, previous_sell_set: the signatures of the list read from
\* previous_cache.  Only the notification block uses the list, so a call with
\* the notifier disabled keeps nothing of it.
previous_set(is_enabled, previous_cache, field) ==
    IF is_enabled THEN signature_set(previous_signals(previous_cache, field)) ELSE {}

\* [s for s in signals if get_signal_signature(s) not in previous_set]
new_signals(signals, previous) ==
    LET absent(sig) == get_signal_signature(sig) \notin previous
    IN SelectSeq(signals, absent)

\* The signals the notification block hands to notify_signal, per side: none
\* when the notifier is disabled.
signals_to_notify(is_enabled, signals, previous) ==
    IF is_enabled THEN new_signals(signals, previous) ELSE <<>>

\* The sides and signatures of the lists of a published bundle
published_keys(data_cache) ==
    {<<"buy", sig>> : sig \in signature_set(previous_signals(data_cache, "buy_signals"))}
    \cup {<<"sell", sig>> : sig \in signature_set(previous_signals(data_cache, "sell_signals"))}

\* notify_count once data_cache is the published bundle: the count of a
\* signature that left its list is dropped.
counts_kept(counts, data_cache) ==
    [k \in DOMAIN counts \cap published_keys(data_cache) |-> counts[k]]

\* notify_count after notify_signal was called for buys and sells
counts_notified(counts, buys, sells) ==
    LET keys == {<<"buy", sig>> : sig \in signature_set(buys)}
                \cup {<<"sell", sig>> : sig \in signature_set(sells)}
    IN [k \in DOMAIN counts \cup keys |->
          (IF k \in DOMAIN counts THEN counts[k] ELSE 0) + (IF k \in keys THEN 1 ELSE 0)]

\* _background_worker: the argument of the time.sleep that follows a call of
\* get_processed_data
worker_sleep(raised) == IF raised THEN failure_backoff ELSE refresh_interval

\* A caller that is not inside get_processed_data.  outcome is how the
\* worker's last call ended: "none", "refreshed" or "error"; was_fresh tells
\* whether a bundle younger than CACHE_DURATION was published on entry.
IdleCall ==
    [pc |-> "idle", force_refresh |-> FALSE, current_time |-> 0,
     bundle |-> EmptyDict, outcome |-> "none", was_fresh |-> FALSE,
     previous_buy_set |-> {}, previous_sell_set |-> {}, replaced |-> {}]

NoReturn ==
    [caller |-> "nobody", outcome |-> "none", force_refresh |-> FALSE,
     value |-> EmptyDict, computed |-> EmptyDict, overtaken |-> FALSE,
     was_fresh |-> FALSE, new_buy_signals |-> <<>>, new_sell_signals |-> <<>>,
     replaced |-> {}]

(***************************************************************************)
(* Inputs of the signal detector and of the confidence function            *)
(***************************************************************************)

\* Bounds: closes range over PriceBase .. PriceBase + MaxPriceStep, so that a
\* three-candle window changes by 0.5 % steps around the 1 % threshold.
PriceBase == 200
MaxPriceStep == 4
Spreads == {1, 2}
Candles ==
    {[low |-> c - dl, close |-> c, high |-> c + dh] :
        c \in PriceBase..(PriceBase + MaxPriceStep), dl \in Spreads, dh \in Spreads}

\* Every series of up to lookback_periods candles, alone or after an older
\* flat history that brings it to min_klines candles.
Windows == UNION {[1..n -> Candles] : n \in 0..lookback_periods}
HistoryCandle == [low |-> PriceBase - 2, close |-> PriceBase - 1, high |-> PriceBase]
History == [i \in 1..(min_klines - lookback_periods) |-> HistoryCandle]
\* Short series of candles whose close is 0: detect_signal would divide by it
\* if it evaluated them.
ZeroCandle == [low |-> 0, close |-> 0, high |-> 0]
ZeroSeries == {[i \in 1..n |-> ZeroCandle] : n \in 1..(lookback_periods - 1)}
SignalInputs == {h \o w : h \in {<<>>, History}, w \in Windows} \cup ZeroSeries

\* Bound: magnitudes 0, 0.5, ..., MaxMagnitudeHalves / 2
MaxMagnitudeHalves == 6
Magnitudes == {Rat(n, 2) : n \in 0..MaxMagnitudeHalves}
Thresholds == {Rat(1, 2), One, Rat(3, 2)}

(***************************************************************************)
(* State machines                                                          *)
(***************************************************************************)

\* ret while no lookup or clear has just returned
NoCall == [op |-> "none", arg |-> None, val |-> None, old |-> None]

EmptyCache == [k \in {} |-> NewEntry("worker", 0)]

InitCacheVars ==
    /\ now = 0
    /\ cache = EmptyCache
    /\ inflight = [c \in Callers |-> None]
    /\ puts = [k \in CacheKeys |-> None]
    /\ ret = NoCall

InitSignalIdle ==
    /\ klines = <<>>
    /\ signal_info = None
    /\ processed = None

InitConfIdle ==
    /\ conf_prev = None
    /\ conf_last = None

\* No refresh has started; the exchange lists nothing.
InitPipeIdle ==
    /\ refresh_pc = "idle"
    /\ filtered_symbols = <<>>
    /\ all_ticker_data = <<>>
    /\ dp_filtered = None
    /\ symbols = <<>>
    /\ batch_i = 1
    /\ results = <<>>
    /\ fetched = [s \in {} |-> FetchRaised]
    /\ processed_data = None
    /\ raised_by = {}
    /\ _data_cache = EmptyDict
    /\ _cache_timestamp = 0
    /\ call = [c \in Callers |-> IdleCall]
    /\ returned = NoReturn
    /\ last_published = EmptyDict
    /\ last_publisher = "nobody"
    /\ worker_pc = "ready"
    /\ worker_wake = 0
    /\ worker_slept = 0

InitTrendIdle ==
    /\ ema_values = EmptyDict
    /\ trend_info = None

\* _get_cache_key has not been called.
InitKeyIdle ==
    /\ key_calls = <<>>
    /\ key_results = <<>>

\* get_cache_stats is not running.
InitStatsIdle == stats_call = None

\* calculate_rsi has not been called.
InitRsiIdle ==
    /\ rsi_prices = <<>>
    /\ rsi_result = None

\* TelegramNotifier.__init__: enabled tells whether a bot token and a chat id
\* are configured.  Nothing has been notified.
InitNotify(configured) ==
    /\ enabled = configured
    /\ notify_count = [k \in {} |-> 0]

\* GapSignalSystem.__init__: not running, no background thread; no thread
\* has been created.
InitLifecycle ==
    /\ running = FALSE
    /\ background_thread = 0
    /\ threads = [i \in ThreadIds |-> "unborn"]
    /\ main_pc = "idle"
    /\ late_cycles = [i \in ThreadIds |-> 0]

InitLaterIdle ==
    /\ InitKeyIdle
    /\ InitStatsIdle
    /\ InitRsiIdle
    /\ InitNotify(FALSE)
    /\ InitLifecycle

InitButNotifier ==
    /\ InitTrendIdle
    /\ InitCacheVars
    /\ InitKeyIdle
    /\ InitStatsIdle
    /\ InitRsiIdle
    /\ InitSignalIdle
    /\ InitConfIdle
    /\ upstream_tickers = <<>>
    /\ InitPipeIdle
    /\ InitLifecycle

Init ==
    /\ InitButNotifier
    /\ InitNotify(FALSE)

\* The clock advances.
Tick ==
    /\ now + TickStep <= MaxTime
    /\ now' = now + TickStep
    /\ ret' = NoCall
    /\ UNCHANGED <<cache, inflight, puts>>
    /\ UNCHANGED <<signalVars, confVars, pipeVars, publishVars, refreshVars, trendVars, laterVars>>

\* _set_to_cache, first half: caller c evaluates the dict display, which reads
\* the clock.
SetToCacheBuild(c, k) ==
    /\ inflight[c] = None
    /\ inflight' = [inflight EXCEPT ![c] = Some([key |-> k, entry |-> NewEntry(DataOf(c), now)])]
    /\ ret' = NoCall
    /\ UNCHANGED <<now, cache, puts>>
    /\ UNCHANGED <<signalVars, confVars, pipeVars, publishVars, refreshVars, trendVars, laterVars>>

\* _set_to_cache, second half: the dict store.  puts records the arguments of
\* the call that stored last.
SetToCacheStore(c) ==
    /\ inflight[c] # None
    /\ LET put == inflight[c][1]
       IN /\ cache' = set_to_cache(cache, put.key, put.entry)
          /\ puts' = [puts EXCEPT ![put.key] = Some(put.entry)]
          /\ ret' = [op |-> "put", arg |-> Some(put.key), val |-> None,
                      old |-> IF put.key \in DOMAIN cache THEN Some(cache[put.key]) ELSE None]
    /\ inflight' = [inflight EXCEPT ![c] = None]
    /\ UNCHANGED now
    /\ UNCHANGED <<signalVars, confVars, pipeVars, publishVars, refreshVars, trendVars, laterVars>>

\* _get_from_cache(k)
GetFromCache(k) ==
    /\ ret' = [op |-> "get", arg |-> Some(k), val |-> get_from_cache(cache, k, now),
               old |-> None]
    /\ UNCHANGED <<now, cache, inflight, puts>>
    /\ UNCHANGED <<signalVars, confVars, pipeVars, publishVars, refreshVars, trendVars, laterVars>>

\* clear_cache(key_prefix): returns the number of entries it removed.
ClearCache(p) ==
    /\ cache' = clear_cache(cache, p)
    /\ puts' = [k \in CacheKeys |-> IF k \in DOMAIN cache' THEN puts[k] ELSE None]
    /\ ret' = [op |-> "clear", arg |-> p, val |-> Some(Cardinality(keys_to_remove(cache, p))),
               old |-> None]
    /\ UNCHANGED <<now, inflight>>
    /\ UNCHANGED <<signalVars, confVars, pipeVars, publishVars, refreshVars, trendVars, laterVars>>

Next ==
    \/ Tick
    \/ \E c \in Callers, k \in CacheKeys : SetToCacheBuild(c, k)
    \/ \E c \in Callers : SetToCacheStore(c)
    \/ \E k \in CacheKeys : GetFromCache(k)
    \/ \E p \in ClearPrefixes : ClearCache(p)

Spec == Init /\ [][Next]_vars

(***************************************************************************)
(* Properties of the expiring cache, checked under Spec                    *)
(***************************************************************************)

\* C1: a lookup of key k is a hit returning the stored value iff a put of k has
\* been stored (and not cleared since) and now - (that put's time) is strictly
\* less than cache_duration; at an age of cache_duration or more it is a miss.
C1_LookupHitIffFresh ==
    ret.op = "get" =>
        LET k == ret.arg[1]
        IN IF puts[k] # None /\ now - puts[k][1].timestamp < cache_duration
           THEN ret.val = Some(puts[k][1].data)
           ELSE ret.val = None

\* C1 witness: a lookup of an entry whose age is exactly cache_duration missed.
C1_Witness ==
    /\ ret.op = "get"
    /\ puts[ret.arg[1]] # None
    /\ now - puts[ret.arg[1]][1].timestamp = cache_duration
    /\ ret.val = None

\* C2: the stored entry of every key is exactly the value and the insertion
\* time of the put that was stored last, whatever entry it replaced; a key
\* without such a put has no entry.
C2_LastWriteWins ==
    \A k \in CacheKeys :
        /\ (k \in DOMAIN cache) <=> (puts[k] # None)
        /\ k \in DOMAIN cache => cache[k] = puts[k][1]

\* C2 witness: two callers interleaved on one key; the put stored last read the
\* clock before the put it replaced, and the entry is wholly the later store's.
C2_Witness ==
    /\ ret.op = "put"
    /\ ret.old # None
    /\ ret.old[1].data # cache[ret.arg[1]].data
    /\ ret.old[1].timestamp > cache[ret.arg[1]].timestamp

\* C3: clear_cache(None) removes every entry; clear_cache(prefix) removes
\* exactly the entries whose key starts with prefix; either returns the number
\* of entries removed and leaves every other entry unchanged.
C3_ClearRemovesPrefixed ==
    [][ret'.op = "clear" =>
        LET p == ret'.arg
            gone == IF p = None THEN DOMAIN cache
                    ELSE {k \in DOMAIN cache : StartsWith(k, p[1])}
        IN /\ DOMAIN cache' = DOMAIN cache \ gone
           /\ \A k \in DOMAIN cache' : cache'[k] = cache[k]
           /\ ret'.val = Some(Cardinality(gone))]_vars

\* C3 witness: clear_cache("f") removed the two keys that start with "f" and
\* left the third.
C3_Witness ==
    /\ ret.op = "clear"
    /\ ret.arg = Some(<<"f">>)
    /\ ret.val = Some(2)
    /\ DOMAIN cache = {KeyKlines}

(***************************************************************************)
(* SpecSignal: detect_signal and process_symbol applied to candle series   *)
(***************************************************************************)

InitSignal ==
    /\ InitCacheVars
    /\ InitLaterIdle
    /\ InitConfIdle
    /\ upstream_tickers = <<>>
    /\ InitPipeIdle
    /\ InitTrendIdle
    /\ klines \in SignalInputs
    /\ signal_info = None
    /\ processed = None

\* detect_signal(klines)
DetectSignal ==
    /\ signal_info = None
    /\ ~detect_signal_raises(klines)
    /\ signal_info' = Some(detect_signal(klines))
    /\ UNCHANGED <<klines, processed>>
    /\ UNCHANGED <<cacheVars, confVars, pipeVars, publishVars, refreshVars, trendVars, laterVars>>

\* process_symbol(symbol, klines)
ProcessSymbol ==
    /\ processed = None
    /\ processed' = Some(process_symbol("B", klines, now))
    /\ UNCHANGED <<klines, signal_info>>
    /\ UNCHANGED <<cacheVars, confVars, pipeVars, publishVars, refreshVars, trendVars, laterVars>>

NextSignal ==
    \/ DetectSignal
    \/ ProcessSymbol

SpecSignal == InitSignal /\ [][NextSignal]_vars

(***************************************************************************)
(* SpecConfidence: _calculate_confidence applied to magnitudes             *)
(***************************************************************************)

\* _calculate_confidence(change, threshold)
CalculateConfidence(change, threshold) ==
    /\ conf_prev' = conf_last
    /\ conf_last' = Some([change |-> change, threshold |-> threshold,
                          result |-> calculate_confidence(change, threshold)])
    /\ UNCHANGED <<cacheVars, signalVars, pipeVars, publishVars, refreshVars, trendVars, laterVars>>

NextConfidence ==
    \E change \in Magnitudes, threshold \in Thresholds :
        CalculateConfidence(change, threshold)

SpecConfidence == Init /\ [][NextConfidence]_vars

(***************************************************************************)
(* Properties of the signal detector                                       *)
(***************************************************************************)

\* C4: on the window of the last lookback_periods candles detect_signal
\* returns buy iff cumulative_change > threshold and lows, closes and highs are
\* each strictly increasing, sell iff cumulative_change < -threshold and all
\* three are strictly decreasing, none otherwise, with cumulative_change =
\* (last_close - first_close) / first_close * 100; a tie breaks a sequence.
C4_SignalIffRunAndThreshold ==
    (signal_info # None /\ Len(klines) >= lookback_periods) =>
        LET r == signal_info[1]
            n == Len(klines)
            w == [i \in 1..lookback_periods |-> klines[n - lookback_periods + i]]
            first_close == w[1].close
            last_close == w[lookback_periods].close
            steps == 1..(lookback_periods - 1)
            rising == \A i \in steps : /\ w[i].low < w[i + 1].low
                                       /\ w[i].close < w[i + 1].close
                                       /\ w[i].high < w[i + 1].high
            falling == \A i \in steps : /\ w[i].low > w[i + 1].low
                                        /\ w[i].close > w[i + 1].close
                                        /\ w[i].high > w[i + 1].high
            \* cumulative_change > threshold, cleared of denominators
            above == (last_close - first_close) * 100 * change_threshold[2]
                        > change_threshold[1] * first_close
            below == (last_close - first_close) * 100 * change_threshold[2]
                        < -change_threshold[1] * first_close
        IN /\ r.signal \in {"buy", "sell", "none"}
           /\ r.signal = "buy" <=> (above /\ rising)
           /\ r.signal = "sell" <=> (below /\ falling)
           /\ r.cumulative_change[1] * first_close
                = (last_close - first_close) * 100 * r.cumulative_change[2]

\* C4 witness: closes and highs rise, the change exceeds the threshold, two
\* lows tie, and detect_signal returned none.
C4_Witness ==
    /\ signal_info # None
    /\ Len(klines) > lookback_periods
    /\ signal_info[1].signal = "none"
    /\ RatLess(change_threshold, signal_info[1].cumulative_change)
    /\ signal_info[1].details.close_sequence = "increasing"
    /\ signal_info[1].details.high_sequence = "increasing"
    /\ signal_info[1].details.low_sequence = "mixed"

ConfidenceMatchesSignal(r) ==
    /\ (r.confidence = Zero) <=> (r.signal = "none")
    /\ r.signal \in {"buy", "sell"} =>
        (RatLeq(Half, r.confidence) /\ RatLeq(r.confidence, One))

\* C5: in every result of detect_signal and of process_symbol the confidence
\* is 0.0 exactly when the signal is none, and lies in [0.5, 1.0] when the
\* signal is buy or sell.
C5_ConfidenceRange ==
    /\ signal_info # None => ConfidenceMatchesSignal(signal_info[1])
    /\ processed # None => ConfidenceMatchesSignal(processed[1])

\* C5 witness: process_symbol reported a buy with a confidence strictly
\* between 0.5 and 1.0.
C5_Witness ==
    /\ processed # None
    /\ processed[1].signal = "buy"
    /\ RatLess(Half, processed[1].confidence)
    /\ RatLess(processed[1].confidence, One)

\* C6: _calculate_confidence(m, t) is 0.5 for m <= t, is
\* 0.5 + min(m - t, t) / t * 0.5 for m > t, is 1.0 for every m >= 2t, and does
\* not decrease when m grows.
C6_ConfidenceCurve ==
    conf_last # None =>
        LET m == conf_last[1].change
            t == conf_last[1].threshold
            r == conf_last[1].result
        IN /\ RatLeq(m, t) => r = Half
           /\ RatLess(t, m) =>
                r = RatAdd(Half, RatMul(RatDiv(RatMin(RatSub(m, t), t), t), Half))
           /\ RatLeq(RatMul(ToFloat(2), t), m) => r = One
           /\ (/\ conf_prev # None
               /\ conf_prev[1].threshold = t
               /\ RatLeq(conf_prev[1].change, m)) => RatLeq(conf_prev[1].result, r)

\* C6 witness: for threshold 1.0 the call with 1.0 gave 0.5 and the next call,
\* with 1.5, gave 0.75.
C6_Witness ==
    /\ conf_prev = Some([change |-> One, threshold |-> One, result |-> Half])
    /\ conf_last = Some([change |-> Rat(3, 2), threshold |-> One, result |-> Rat(3, 4)])

(***************************************************************************)
(* Inputs of the filter stage and of the batch stage                       *)
(***************************************************************************)

\* Bound: the exchange lists at most MaxSymbols symbols, in a fixed order.
MaxSymbols == 3
SymbolNames == <<"A", "B", "C", "D", "E", "F">>
Symbols == SubSeq(SymbolNames, 1, MaxSymbols)

\* A ticker of the exchange; the fields the filters do not compare are
\* numeric unless lastPrice is given as malformed.
Ticker(symbol, v) ==
    [symbol |-> symbol, quoteVolume |-> v.quoteVolume,
     priceChangePercent |-> v.priceChangePercent, lastPrice |-> v.lastPrice,
     highPrice |-> Num(One), lowPrice |-> Num(One), volume |-> Num(One),
     count |-> Num(One)]

Variant(qv, pc, lp) == [quoteVolume |-> qv, priceChangePercent |-> pc, lastPrice |-> lp]

\* Quote volumes below, at and above volume_threshold; price changes below,
\* at and beyond price_change_threshold (the last one negative).
QuoteVolumes == {ToFloat(1000), ToFloat(volume_threshold), ToFloat(90000000)}
PriceChanges == {Rat(1, 20), price_change_threshold, Rat(-3, 2)}
WellFormedVariants ==
    {Variant(Num(qv), Num(pc), Num(One)) : qv \in QuoteVolumes, pc \in PriceChanges}
MalformedVariants ==
    {Variant(Bad, Num(Rat(-3, 2)), Num(One)),
     Variant(Num(ToFloat(90000000)), Bad, Num(One)),
     Variant(Num(ToFloat(90000000)), Num(Rat(-3, 2)), Bad),
     Variant(Missing, Num(Rat(-3, 2)), Num(One))}
\* A ticker with a null price change, and one with a null last price
NullVariants ==
    {Variant(Num(ToFloat(90000000)), Null, Num(One)),
     Variant(Num(ToFloat(90000000)), Num(Rat(-3, 2)), Null)}
FilterVariants == WellFormedVariants \cup MalformedVariants \cup NullVariants
BatchVariants ==
    {Variant(Num(ToFloat(90000000)), Num(Rat(-3, 2)), Num(One)),
     Variant(Num(ToFloat(volume_threshold)), Num(price_change_threshold), Num(One)),
     Variant(Num(ToFloat(1000)), Num(Rat(1, 20)), Num(One))}

\* The ticker lists the exchange may answer with: each symbol is absent or
\* listed once, with one of the variants.
Unlisted == Variant(Missing, Missing, Missing)
TickerSnapshots(variants) ==
    {LET rows == [i \in 1..MaxSymbols |-> Ticker(Symbols[i], choice[i])]
         listed == {i \in 1..MaxSymbols : choice[i] # Unlisted}
         RECURSIVE Listing(_)
         Listing(i) == IF i > MaxSymbols THEN <<>>
                       ELSE (IF i \in listed THEN <<rows[i]>> ELSE <<>>) \o Listing(i + 1)
     IN Listing(1) : choice \in [1..MaxSymbols -> variants \cup {Unlisted}]}

\* Candle series binance_client.get_klines may return: none, one short of
\* min_klines, and full series ending in a rise of 1.5 %, a rise of 2 %, a
\* fall of about 2 %, a rise of 1 % (no signal), a window that starts at a
\* close of 0 (detect_signal divides by it), and rises of 1.1 % and 1.2 %
\* (confidence 0.55 and 0.6).
Candle(c) == [low |-> c - 1, close |-> c, high |-> c + 1]
SeriesEnding(steps) ==
    History \o [i \in 1..lookback_periods |-> Candle(PriceBase + steps[i])]
\* The same at five times the price: steps of 0.1 %
FineSeriesEnding(steps) ==
    History \o [i \in 1..lookback_periods |-> Candle(5 * PriceBase + steps[i])]
ShortSeries == SubSeq(SeriesEnding(<<0, 1, 3>>), 2, min_klines)
KlineFeeds ==
    {<<>>, ShortSeries, SeriesEnding(<<0, 1, 3>>), SeriesEnding(<<0, 2, 4>>),
     SeriesEnding(<<4, 2, 0>>), SeriesEnding(<<0, 1, 2>>),
     SeriesEnding(<<0 - PriceBase, 1, 2>>),
     FineSeriesEnding(<<0, 5, 11>>), FineSeriesEnding(<<0, 6, 12>>)}
FetchOutcomes == {FetchRaised} \cup {Returned(ks) : ks \in KlineFeeds}

(***************************************************************************)
(* SpecFilter and SpecBatch: one refresh of get_processed_data up to the   *)
(* return of process_multiple_symbols                                      *)
(***************************************************************************)

InitFilter ==
    /\ InitCacheVars
    /\ InitLaterIdle
    /\ InitSignalIdle
    /\ InitConfIdle
    /\ upstream_tickers \in TickerSnapshots(FilterVariants)
    /\ InitPipeIdle
    /\ InitTrendIdle

InitBatch ==
    /\ InitCacheVars
    /\ InitLaterIdle
    /\ InitSignalIdle
    /\ InitConfIdle
    /\ upstream_tickers \in TickerSnapshots(BatchVariants)
    /\ InitPipeIdle
    /\ InitTrendIdle

\* get_processed_data up to the call of process_multiple_symbols:
\* filtered_symbols, all_ticker_data = data_fetcher.get_filtered_symbols();
\* symbols = [s['symbol'] for s in filtered_symbols]
GetFilteredSymbols(use_cache) ==
    /\ refresh_pc = "idle"
    /\ ~get_filtered_symbols_raises(cache, now, upstream_tickers, use_cache)
    /\ LET fetch == get_filtered_symbols(cache, now, upstream_tickers, use_cache)
       IN /\ filtered_symbols' = fetch.result[1]
          /\ all_ticker_data' = fetch.result[2]
          /\ symbols' = [i \in 1..Len(fetch.result[1]) |-> fetch.result[1][i].symbol]
          /\ cache' = fetch.cache
    /\ refresh_pc' = "batch"
    /\ batch_i' = 1
    /\ results' = <<>>
    /\ UNCHANGED <<now, inflight, puts, ret, upstream_tickers, dp_filtered, fetched,
                   processed_data>>
    /\ UNCHANGED <<signalVars, confVars, publishVars, refreshVars, trendVars, laterVars>>
    /\ UNCHANGED raised_by

\* data_processor.filter_trading_pairs(ticker_data) on the exchange's answer
FilterTradingPairs ==
    /\ dp_filtered = None
    /\ "filter_trading_pairs" \notin raised_by
    /\ ~filter_trading_pairs_raises(upstream_tickers)
    /\ dp_filtered' = Some(filter_trading_pairs(upstream_tickers))
    /\ UNCHANGED <<upstream_tickers, refresh_pc, filtered_symbols, all_ticker_data,
                   symbols, batch_i, results, fetched, processed_data>>
    /\ UNCHANGED <<cacheVars, signalVars, confVars, publishVars, refreshVars, trendVars, laterVars>>
    /\ UNCHANGED raised_by

\* get_filtered_symbols raises out of its loop; get_futures_ticker_24h has
\* stored the ticker list by then.  get_processed_data ends in its except
\* branch.
GetFilteredSymbolsRaises(use_cache) ==
    /\ refresh_pc = "idle"
    /\ get_filtered_symbols_raises(cache, now, upstream_tickers, use_cache)
    /\ cache' = get_futures_ticker_24h(cache, now, upstream_tickers, use_cache).cache
    /\ refresh_pc' = "failed"
    /\ raised_by' = raised_by \cup {"get_filtered_symbols"}
    /\ UNCHANGED <<now, inflight, puts, ret, upstream_tickers, filtered_symbols,
                   all_ticker_data, dp_filtered, symbols, batch_i, results, fetched,
                   processed_data>>
    /\ UNCHANGED <<signalVars, confVars, publishVars, refreshVars, trendVars, laterVars>>

\* filter_trading_pairs raises out of its loop
FilterTradingPairsRaises ==
    /\ "filter_trading_pairs" \notin raised_by
    /\ filter_trading_pairs_raises(upstream_tickers)
    /\ raised_by' = raised_by \cup {"filter_trading_pairs"}
    /\ UNCHANGED <<upstream_tickers, refresh_pc, filtered_symbols, all_ticker_data,
                   dp_filtered, symbols, batch_i, results, fetched, processed_data>>
    /\ UNCHANGED <<cacheVars, signalVars, confVars, publishVars, refreshVars, trendVars, laterVars>>

\* One pass of the loop of process_multiple_symbols, for symbols[batch_i]
ProcessNextSymbol(outcome) ==
    /\ refresh_pc = "batch"
    /\ batch_i <= Len(symbols)
    /\ binance_client_set
    /\ LET symbol == symbols[batch_i]
       IN /\ fetched' = [s \in DOMAIN fetched \cup {symbol} |->
                            IF s = symbol THEN outcome ELSE fetched[s]]
          /\ IF iteration_raises(symbol, all_ticker_data, outcome)
             THEN /\ batch_i' = after_exception(batch_i, Len(symbols))
                  /\ results' = results
             ELSE /\ batch_i' = batch_i + 1
                  /\ results' = Append(results,
                                    iteration_result(symbol, all_ticker_data, outcome, now))
    /\ UNCHANGED <<upstream_tickers, refresh_pc, filtered_symbols, all_ticker_data,
                   dp_filtered, symbols, processed_data>>
    /\ UNCHANGED <<cacheVars, signalVars, confVars, publishVars, refreshVars, trendVars, laterVars>>
    /\ UNCHANGED raised_by

\* The loop is over: results is sorted by confidence and returned.
ReturnResults ==
    /\ refresh_pc = "batch"
    /\ batch_i > Len(symbols)
    /\ processed_data' = Some(sort_by_confidence(results))
    /\ refresh_pc' = "done"
    /\ UNCHANGED <<upstream_tickers, filtered_symbols, all_ticker_data, dp_filtered,
                   symbols, batch_i, results, fetched>>
    /\ UNCHANGED <<cacheVars, signalVars, confVars, publishVars, refreshVars, trendVars, laterVars>>
    /\ UNCHANGED raised_by

\* get_processed_data after process_multiple_symbols returned: filter_by_signal,
\* generate_summary and the two publishing assignments.  current_time was read
\* on entry.
PublishBundle ==
    /\ refresh_pc = "done"
    /\ _data_cache' = new_bundle(processed_data[1], now, now)
    /\ _cache_timestamp' = now
    /\ refresh_pc' = "published"
    /\ UNCHANGED <<upstream_tickers, filtered_symbols, all_ticker_data, dp_filtered,
                   symbols, batch_i, results, fetched, processed_data>>
    /\ UNCHANGED <<cacheVars, signalVars, confVars, refreshVars, trendVars, laterVars>>
    /\ UNCHANGED raised_by

NextFilter ==
    \/ \E use_cache \in BOOLEAN : GetFilteredSymbols(use_cache)
    \/ FilterTradingPairs
    \/ \E use_cache \in BOOLEAN : GetFilteredSymbolsRaises(use_cache)
    \/ FilterTradingPairsRaises

SpecFilter == InitFilter /\ [][NextFilter]_vars

NextBatch ==
    \/ GetFilteredSymbols(TRUE)
    \/ \E outcome \in FetchOutcomes : ProcessNextSymbol(outcome)
    \/ ReturnResults
    \/ PublishBundle

SpecBatch == InitBatch /\ [][NextBatch]_vars

(***************************************************************************)
(* Properties of the filter stage and of the batch stage                   *)
(***************************************************************************)

ConvertedFields ==
    {"quoteVolume", "priceChangePercent", "lastPrice", "highPrice", "lowPrice",
     "volume", "count"}

\* Every field a filter converts is a number.
WellFormed(ticker) == \A f \in ConvertedFields : ticker[f][1] = "num"

\* The quote volume is at least the volume threshold and the magnitude of the
\* price change at least the price change threshold.
MeetsBoth(quote_volume, price_change) ==
    /\ quote_volume[1] >= volume_threshold * quote_volume[2]
    /\ \/ price_change[1] * price_change_threshold[2]
              >= price_change_threshold[1] * price_change[2]
       \/ (0 - price_change[1]) * price_change_threshold[2]
              >= price_change_threshold[1] * price_change[2]

TickerMeetsBoth(ticker) ==
    /\ ticker.quoteVolume[1] = "num"
    /\ ticker.priceChangePercent[1] = "num"
    /\ MeetsBoth(ticker.quoteVolume[2], ticker.priceChangePercent[2])

\* C7: both filters keep a ticker iff its quote volume is >= the volume
\* threshold and the magnitude of its price change >= the price change
\* threshold: every kept ticker meets both conditions and comes from the
\* input, and no well-formed ticker meeting both is dropped.
C7_FilterKeepsIffThresholds ==
    /\ refresh_pc # "idle" =>
          /\ \A i \in 1..Len(filtered_symbols) :
                /\ TickerMeetsBoth(filtered_symbols[i])
                /\ filtered_symbols[i] \in Range(all_ticker_data)
          /\ \A i \in 1..Len(all_ticker_data) :
                WellFormed(all_ticker_data[i]) /\ TickerMeetsBoth(all_ticker_data[i])
                    => all_ticker_data[i] \in Range(filtered_symbols)
    /\ dp_filtered # None =>
          /\ \A i \in 1..Len(dp_filtered[1]) :
                /\ MeetsBoth(dp_filtered[1][i].quote_volume,
                             dp_filtered[1][i].price_change_percent)
                /\ \E j \in 1..Len(upstream_tickers) :
                      /\ upstream_tickers[j].symbol = dp_filtered[1][i].symbol
                      /\ upstream_tickers[j].quoteVolume = Num(dp_filtered[1][i].quote_volume)
                      /\ upstream_tickers[j].priceChangePercent
                            = Num(dp_filtered[1][i].price_change_percent)
          /\ \A j \in 1..Len(upstream_tickers) :
                WellFormed(upstream_tickers[j]) /\ TickerMeetsBoth(upstream_tickers[j])
                    => \E i \in 1..Len(dp_filtered[1]) :
                          dp_filtered[1][i].symbol = upstream_tickers[j].symbol

\* Both filters have run on a list of which they kept a ticker lying exactly
\* on both thresholds and dropped another.
C7_Witness ==
    /\ refresh_pc # "idle"
    /\ dp_filtered # None
    /\ Len(filtered_symbols) < Len(all_ticker_data)
    /\ Len(dp_filtered[1]) < Len(upstream_tickers)
    /\ \E i \in 1..Len(filtered_symbols) :
          /\ filtered_symbols[i].quoteVolume = Num(ToFloat(volume_threshold))
          /\ filtered_symbols[i].priceChangePercent = Num(price_change_threshold)
          /\ \E j \in 1..Len(dp_filtered[1]) :
                dp_filtered[1][j].symbol = filtered_symbols[i].symbol

\* C8: the survivors handed by get_processed_data to the per-instrument stage
\* are ordered by quote volume, largest first.
C8_SurvivorsByVolumeDescending ==
    refresh_pc # "idle" =>
        /\ Len(symbols) = Len(filtered_symbols)
        /\ \A i, j \in 1..Len(filtered_symbols) :
              i < j => /\ symbols[i] = filtered_symbols[i].symbol
                       /\ filtered_symbols[j].quoteVolume[2][1] * filtered_symbols[i].quoteVolume[2][2]
                            <= filtered_symbols[i].quoteVolume[2][1] * filtered_symbols[j].quoteVolume[2][2]

\* The symbols whose pass of the batch loop raised
Failed == {s \in DOMAIN fetched : iteration_raises(s, all_ticker_data, fetched[s])}

\* The positions of symbol s in the returned batch
EntriesOf(s) == {i \in 1..Len(processed_data[1]) : processed_data[1][i].symbol = s}

\* The symbols whose fetch returned fewer than 10 candles
ShortFetched == {s \in DOMAIN fetched : ~fetched[s].raised /\ Len(fetched[s].klines) < 10}

\* C9 as stated: a symbol whose fetch returns fewer than 10 candles gets a
\* batch entry of exactly symbol, error "Insufficient data", signal "none" and
\* confidence 0.0, with no other field.
C9_PlaceholderExactlyFourFields ==
    refresh_pc = "done" =>
        \A s \in ShortFetched : \A i \in EntriesOf(s) :
            processed_data[1][i] =
                [symbol |-> s, error |-> "Insufficient data", signal |-> "none",
                 confidence |-> <<0, 1>>]

\* C9 amended: such a symbol gets one batch entry, which holds exactly symbol,
\* error "Insufficient data", signal "none", confidence 0.0 and, the symbol
\* having a ticker, volume_24h and price_change_24h taken from that ticker; no
\* indicator, trend or price field.
C9_PlaceholderWithTickerFields ==
    refresh_pc = "done" =>
        \A s \in ShortFetched :
            /\ Cardinality(EntriesOf(s)) = 1
            /\ \A i \in EntriesOf(s) : \E j \in 1..Len(all_ticker_data) :
                  /\ all_ticker_data[j].symbol = s
                  /\ processed_data[1][i] =
                        [symbol |-> s, error |-> "Insufficient data", signal |-> "none",
                         confidence |-> <<0, 1>>,
                         volume_24h |-> all_ticker_data[j].quoteVolume[2],
                         price_change_24h |-> all_ticker_data[j].priceChangePercent[2]]

\* A batch has returned in which one symbol's fetch gave no candle and
\* another's gave nine.
C9_Witness ==
    /\ refresh_pc = "done"
    /\ \E s, t \in ShortFetched :
          /\ Len(fetched[s].klines) = 0
          /\ Len(fetched[t].klines) = 9
          /\ EntriesOf(s) # {}
          /\ EntriesOf(t) # {}

\* C10: a failure while processing one symbol never aborts the batch: the
\* returned batch holds every input symbol whose own pass did not raise exactly
\* once, and no entry for a symbol whose pass raised.
C10_FailureIsolated ==
    refresh_pc = "done" =>
        /\ \A i \in 1..Len(symbols) :
              Cardinality(EntriesOf(symbols[i])) = (IF symbols[i] \in Failed THEN 0 ELSE 1)
        /\ \A i \in 1..Len(processed_data[1]) :
              processed_data[1][i].symbol \in Range(symbols)

\* A batch has returned in which the fetch of one symbol raised, the
\* computation for the next failed and the symbol after that was processed in
\* full.
C10_Witness ==
    /\ refresh_pc = "done"
    /\ \E i, j, k \in 1..Len(symbols) :
          /\ i < j
          /\ j < k
          /\ symbols[i] \in Failed
          /\ fetched[symbols[i]].raised
          /\ \E e \in EntriesOf(symbols[j]) :
                /\ "error" \in DOMAIN processed_data[1][e]
                /\ processed_data[1][e].error = "float division by zero"
          /\ \E e \in EntriesOf(symbols[k]) : "error" \notin DOMAIN processed_data[1][e]

(***************************************************************************)
(* Properties of ranking, segmentation and summary, checked under          *)
(* SpecBatch                                                               *)
(***************************************************************************)

\* The confidences of a list never rise from one entry to the next.
NonIncreasingConfidence(entries) ==
    \A i \in 1..(Len(entries) - 1) :
        entries[i + 1].confidence[1] * entries[i].confidence[2]
            <= entries[i].confidence[1] * entries[i + 1].confidence[2]

Published == DOMAIN _data_cache # {}

\* C11: the batch process_multiple_symbols returns, and so the processed list
\* of the published bundle, is sorted by confidence in non-increasing order.
C11_BatchSortedByConfidence ==
    /\ processed_data # None => NonIncreasingConfidence(processed_data[1])
    /\ Published => NonIncreasingConfidence(_data_cache.processed_data)

\* A bundle is published whose batch of three the final sort had to reorder.
C11_Witness ==
    /\ Published
    /\ Len(results) = 3
    /\ ~NonIncreasingConfidence(results)
    /\ _data_cache.processed_data = processed_data[1]
    /\ \E i \in 1..2 : results[i] # processed_data[1][i]

\* confidence >= 0.6, cleared of denominators
AtLeastMinConfidence(data) == data.confidence[1] * 5 >= 3 * data.confidence[2]

\* C12: the buy list holds exactly the processed entries with signal buy and
\* confidence >= 0.6, the sell list exactly those with signal sell and
\* confidence >= 0.6; the lists are disjoint, hold no entry with signal none
\* and are each sorted by confidence in non-increasing order.
C12_SegmentationExact ==
    Published =>
        LET batch == _data_cache.processed_data
            buy == _data_cache.buy_signals
            sell == _data_cache.sell_signals
            wanted(tag) == {i \in 1..Len(batch) :
                               batch[i].signal = tag /\ AtLeastMinConfidence(batch[i])}
        IN /\ Range(buy) = {batch[i] : i \in wanted("buy")}
           /\ Len(buy) = Cardinality(wanted("buy"))
           /\ Range(sell) = {batch[i] : i \in wanted("sell")}
           /\ Len(sell) = Cardinality(wanted("sell"))
           /\ Range(buy) \cap Range(sell) = {}
           /\ \A d \in Range(buy) \cup Range(sell) : d.signal # "none"
           /\ NonIncreasingConfidence(buy)
           /\ NonIncreasingConfidence(sell)
           /\ _data_cache.buy_count = Len(buy)
           /\ _data_cache.sell_count = Len(sell)

\* A bundle is published whose batch holds a buy of confidence exactly 0.6
\* (kept), a buy of confidence 0.55 (left out) and a sell (kept).
C12_Witness ==
    /\ Published
    /\ \E d \in Range(_data_cache.buy_signals) : d.confidence = Rat(3, 5)
    /\ \E d \in Range(_data_cache.processed_data) :
          /\ d.signal = "buy"
          /\ d.confidence = Rat(11, 20)
          /\ d \notin Range(_data_cache.buy_signals)
    /\ Len(_data_cache.sell_signals) = 1

\* The values of a field over the entries of the batch where it is not 0
FieldValues(batch, field) ==
    LET idx == {i \in 1..Len(batch) : field \in DOMAIN batch[i] /\ batch[i][field][1] # 0}
    IN [i \in idx |-> batch[i][field]]

\* m is 0 for no values, and else their mean: m * count = sum, by induction
\* over the index set.
RECURSIVE SumOver(_, _)
SumOver(values, idx) ==
    IF idx = {} THEN <<0, 1>>
    ELSE LET i == CHOOSE j \in idx : TRUE
             rest == SumOver(values, idx \ {i})
         IN Rat(rest[1] * values[i][2] + values[i][1] * rest[2], rest[2] * values[i][2])
IsMeanOrZero(m, values) ==
    IF DOMAIN values = {} THEN m = <<0, 1>>
    ELSE LET total == SumOver(values, DOMAIN values)
         IN m[1] * total[2] * Cardinality(DOMAIN values) = total[1] * m[2]

\* m is 0 for no values, and else the largest of them.
IsMaxOrZero(m, values) ==
    IF DOMAIN values = {} THEN m = <<0, 1>>
    ELSE /\ \E i \in DOMAIN values : values[i] = m
         /\ \A i \in DOMAIN values : values[i][1] * m[2] <= m[1] * values[i][2]

Magnitude(x) == IF x[1] < 0 THEN <<0 - x[1], x[2]>> ELSE x
Magnitudes_of(values) == [i \in DOMAIN values |-> Magnitude(values[i])]

\* The confidences of the entries of one signal tag
TaggedConfidences(batch, tag) ==
    [i \in {j \in 1..Len(batch) : batch[j].signal = tag} |-> batch[i].confidence]

\* The part of the summary C13 and its amendment agree on: the counts, the
\* mean confidence per side, the mean and max volume and the max magnitude of
\* the price change -- each 0 over an empty subset.
SummaryCommon(summary, batch) ==
    /\ summary.total_symbols = Len(batch)
    /\ summary.buy_signals = Cardinality(DOMAIN TaggedConfidences(batch, "buy"))
    /\ summary.sell_signals = Cardinality(DOMAIN TaggedConfidences(batch, "sell"))
    /\ IsMeanOrZero(summary.buy_confidence_avg, TaggedConfidences(batch, "buy"))
    /\ IsMeanOrZero(summary.sell_confidence_avg, TaggedConfidences(batch, "sell"))
    /\ IsMeanOrZero(summary.avg_volume, FieldValues(batch, "volume_24h"))
    /\ IsMaxOrZero(summary.max_volume, FieldValues(batch, "volume_24h"))
    /\ IsMaxOrZero(summary.max_price_change,
                   Magnitudes_of(FieldValues(batch, "price_change_24h")))

\* C13 as stated: the summary holds the counts, the mean confidence per side,
\* the mean and max 24h volume and the mean and max of the absolute 24h price
\* change, each 0 over an empty subset.
C13_SummaryMeanAbsoluteChange ==
    Published =>
        /\ SummaryCommon(_data_cache.summary, _data_cache.processed_data)
        /\ IsMeanOrZero(_data_cache.summary.avg_price_change,
                        Magnitudes_of(FieldValues(_data_cache.processed_data,
                                                  "price_change_24h")))

\* C13 amended: as stated, except that the mean price change is the mean of
\* the signed 24h price changes; only the max is taken over magnitudes.
C13_SummarySignedMeanChange ==
    Published =>
        /\ SummaryCommon(_data_cache.summary, _data_cache.processed_data)
        /\ IsMeanOrZero(_data_cache.summary.avg_price_change,
                        FieldValues(_data_cache.processed_data, "price_change_24h"))

\* A bundle is published whose batch holds a buy and no sell, with one price
\* change negative and one positive.
C13_Witness ==
    /\ Published
    /\ _data_cache.summary.buy_signals > 0
    /\ _data_cache.summary.sell_signals = 0
    /\ _data_cache.summary.sell_confidence_avg = Zero
    /\ \E d, e \in Range(_data_cache.processed_data) :
          d.price_change_24h[1] < 0 /\ e.price_change_24h[1] > 0

(***************************************************************************)
(* SpecRefresh: the background worker and a web request handler calling    *)
(* get_processed_data while the clock advances                             *)
(***************************************************************************)

\* The batches a refresh cycle may compute at clock t: none, or one symbol
\* with a buy signal.
CycleTickers ==
    <<Ticker("A", Variant(Num(ToFloat(90000000)), Num(Rat(-3, 2)), Num(One)))>>
CycleBatches(t) ==
    {<<>>,
     sort_by_confidence(
        <<iteration_result("A", CycleTickers, Returned(SeriesEnding(<<0, 1, 3>>)), t)>>)}

InitRefresh == Init

\* returned holds a call for the one step in which it returns.

\* get_processed_data up to the test on entry: current_time is read and the
\* call either serves the published bundle or starts a refresh cycle.  The
\* worker always forces; a request handler forces for /api/refresh only.
Enter(c, force_refresh) ==
    /\ call[c].pc = "idle"
    /\ IF c = "worker"
       THEN /\ force_refresh
            /\ worker_pc = "ready"
            /\ worker_pc' = "calling"
       ELSE UNCHANGED worker_pc
    /\ call' = [call EXCEPT ![c] =
                  [pc |-> IF serves_cached(force_refresh, _data_cache, _cache_timestamp, now)
                          THEN "hit" ELSE "refreshing",
                   force_refresh |-> force_refresh, current_time |-> now,
                   bundle |-> EmptyDict, outcome |-> "none",
                   was_fresh |-> /\ DOMAIN _data_cache # {}
                                 /\ now - _cache_timestamp < CACHE_DURATION,
                   previous_buy_set |-> {}, previous_sell_set |-> {}, replaced |-> {}]]
    /\ returned' = NoReturn
    /\ UNCHANGED <<last_published, last_publisher, worker_wake, worker_slept>>
    /\ UNCHANGED <<cacheVars, signalVars, confVars, pipeVars, publishVars,
                   trendVars, laterVars>>

\* What a call leaves behind when it returns
Idle(c, outcome) == [IdleCall EXCEPT !.outcome = IF c = "worker" THEN outcome ELSE "none"]
Return(c, outcome, value) ==
    [caller |-> c, outcome |-> outcome, force_refresh |-> call[c].force_refresh,
     value |-> value, computed |-> call[c].bundle,
     overtaken |-> last_publisher # c, was_fresh |-> call[c].was_fresh,
     new_buy_signals |-> <<>>, new_sell_signals |-> <<>>, replaced |-> {}]

\* return _data_cache on the cached path
ReturnCached(c) ==
    /\ call[c].pc = "hit"
    /\ returned' = Return(c, "cached", _data_cache)
    /\ call' = [call EXCEPT ![c] = Idle(c, "cached")]
    /\ UNCHANGED <<last_published, last_publisher, worker_pc, worker_wake, worker_slept>>
    /\ UNCHANGED <<cacheVars, signalVars, confVars, pipeVars, publishVars,
                   trendVars, laterVars>>

\* The try block up to generate_summary ran without an exception and the new
\* dict is built.
CycleSucceeds(c, batch) ==
    /\ call[c].pc = "refreshing"
    /\ call' = [call EXCEPT ![c].pc = "computed",
                            ![c].bundle = new_bundle(batch, call[c].current_time, now),
                            ![c].previous_buy_set =
                                previous_set(enabled, _data_cache, "buy_signals"),
                            ![c].previous_sell_set =
                                previous_set(enabled, _data_cache, "sell_signals")]
    /\ returned' = NoReturn
    /\ UNCHANGED <<last_published, last_publisher, worker_pc, worker_wake,
                   worker_slept>>
    /\ UNCHANGED <<cacheVars, signalVars, confVars, pipeVars, publishVars,
                   trendVars, laterVars>>

\* The try block raised before the publishing assignments: the except branch
\* returns the error dict.
CycleFails(c) ==
    /\ call[c].pc = "refreshing"
    /\ LET error == error_result(call[c].current_time, "error")
           data_cache == data_cache_after_failure(_data_cache, error)
       IN /\ _data_cache' = data_cache
          /\ notify_count' = counts_kept(notify_count, data_cache)
          /\ returned' = Return(c, "error", error)
    /\ call' = [call EXCEPT ![c] = Idle(c, "error")]
    /\ UNCHANGED <<_cache_timestamp, last_published, last_publisher, worker_pc,
                   worker_wake, worker_slept, enabled>>
    /\ UNCHANGED <<cacheVars, signalVars, confVars, pipeVars, trendVars,
                   laterButNotify>>

\* _data_cache = {...}
AssignDataCache(c) ==
    /\ call[c].pc = "computed"
    /\ LET data_cache == assign_data_cache(_data_cache, call[c].bundle)
       IN /\ _data_cache' = data_cache
          /\ notify_count' = counts_kept(notify_count, data_cache)
    /\ last_published' = call[c].bundle
    /\ last_publisher' = c
    /\ call' = [call EXCEPT ![c].pc = "assigned",
                            ![c].replaced = IF enabled THEN published_keys(_data_cache)
                                            ELSE {}]
    /\ returned' = NoReturn
    /\ UNCHANGED <<_cache_timestamp, worker_pc, worker_wake, worker_slept, enabled>>
    /\ UNCHANGED <<cacheVars, signalVars, confVars, pipeVars, trendVars,
                   laterButNotify>>

\* _cache_timestamp = current_time
AssignCacheTimestamp(c) ==
    /\ call[c].pc = "assigned"
    /\ _cache_timestamp' = call[c].current_time
    /\ call' = [call EXCEPT ![c].pc = "stamped"]
    /\ returned' = NoReturn
    /\ UNCHANGED <<_data_cache, last_published, last_publisher, worker_pc,
                   worker_wake, worker_slept>>
    /\ UNCHANGED <<cacheVars, signalVars, confVars, pipeVars, trendVars, laterVars>>

\* The notification block and return _data_cache at the end of the try
\* block: notify_signal is called for the new buys, then for the new sells.
ReturnPublished(c) ==
    /\ call[c].pc = "stamped"
    /\ LET buys == signals_to_notify(enabled, call[c].bundle.buy_signals,
                                     call[c].previous_buy_set)
           sells == signals_to_notify(enabled, call[c].bundle.sell_signals,
                                      call[c].previous_sell_set)
       IN /\ notify_count' = counts_kept(counts_notified(notify_count, buys, sells),
                                         _data_cache)
          /\ returned' = [Return(c, "refreshed", _data_cache) EXCEPT
                            !.new_buy_signals = buys,
                            !.new_sell_signals = sells,
                            !.replaced = call[c].replaced]
    /\ call' = [call EXCEPT ![c] = Idle(c, "refreshed")]
    /\ UNCHANGED <<last_published, last_publisher, worker_pc, worker_wake,
                   worker_slept, enabled>>
    /\ UNCHANGED <<cacheVars, signalVars, confVars, pipeVars, publishVars,
                   trendVars, laterButNotify>>

\* _background_worker after get_processed_data: time.sleep(refresh_interval),
\* or time.sleep(60) in the except branch.
WorkerSleep ==
    /\ worker_pc = "calling"
    /\ call["worker"].pc = "idle"
    /\ LET seconds == worker_sleep(get_processed_data_raises(call["worker"].outcome = "error"))
       IN /\ worker_slept' = seconds
          /\ worker_wake' = now + seconds
    /\ worker_pc' = "sleeping"
    /\ returned' = NoReturn
    /\ UNCHANGED <<call, last_published, last_publisher>>
    /\ UNCHANGED <<cacheVars, signalVars, confVars, pipeVars, publishVars,
                   trendVars, laterVars>>

\* time.sleep returns
WorkerWake ==
    /\ worker_pc = "sleeping"
    /\ now >= worker_wake
    /\ worker_pc' = "ready"
    /\ returned' = NoReturn
    /\ UNCHANGED <<call, last_published, last_publisher, worker_wake,
                   worker_slept>>
    /\ UNCHANGED <<cacheVars, signalVars, confVars, pipeVars, publishVars,
                   trendVars, laterVars>>

NextRefresh ==
    \/ Tick
    \/ \E c \in Callers, force_refresh \in BOOLEAN : Enter(c, force_refresh)
    \/ \E c \in Callers : ReturnCached(c)
    \/ \E c \in Callers : \E batch \in CycleBatches(now) : CycleSucceeds(c, batch)
    \/ \E c \in Callers : CycleFails(c)
    \/ \E c \in Callers : AssignDataCache(c)
    \/ \E c \in Callers : AssignCacheTimestamp(c)
    \/ \E c \in Callers : ReturnPublished(c)
    \/ WorkerSleep
    \/ WorkerWake

SpecRefresh == InitRefresh /\ [][NextRefresh]_vars

(***************************************************************************)
(* Properties of publishing and of the refresh callers, checked under      *)
(* SpecRefresh                                                             *)
(***************************************************************************)

BundleFields ==
    {"processed_data", "buy_signals", "sell_signals", "summary", "timestamp",
     "symbol_count", "buy_count", "sell_count"}

\* A bundle with every field, whose lists, counts and summary describe the
\* same batch.
CompleteBundle(b) ==
    /\ DOMAIN b = BundleFields
    /\ b.symbol_count = Len(b.processed_data)
    /\ b.buy_count = Len(b.buy_signals)
    /\ b.sell_count = Len(b.sell_signals)
    /\ Range(b.buy_signals) \cup Range(b.sell_signals) \subseteq Range(b.processed_data)
    /\ b.summary.total_symbols = Len(b.processed_data)
    /\ b.summary.buy_signals = Cardinality({i \in 1..Len(b.processed_data) :
                                               b.processed_data[i].signal = "buy"})

C15_FailedCycleKeepsBundle ==
    [][(returned'.outcome = "error" /\ returned' # returned) =>
          (_data_cache' = _data_cache /\ _cache_timestamp' = _cache_timestamp)]_vars

\* A cycle has just failed while a bundle with an entry, published at a later
\* clock value than 0, stays published.
C15_Witness ==
    /\ returned.outcome = "error"
    /\ "error" \in DOMAIN returned.value
    /\ Published
    /\ _data_cache.symbol_count = 1
    /\ _cache_timestamp > 0
    /\ _cache_timestamp = _data_cache.timestamp

\* C16: after a cycle that failed the background worker sleeps the 60-second
\* backoff, after a cycle that succeeded the 300-second interval.
C16_WorkerBackoffAfterFailure ==
    worker_pc = "sleeping" =>
        worker_slept = (IF call["worker"].outcome = "error" THEN 60 ELSE 300)

C18_ShortInputReturnsNone ==
    (signal_info # None /\ Len(klines) < 3) =>
        /\ DOMAIN signal_info[1] = {"signal", "confidence", "cumulative_change", "details"}
        /\ signal_info[1].signal = "none"
        /\ signal_info[1].confidence = <<0, 1>>
        /\ signal_info[1].cumulative_change = <<0, 1>>
        /\ DOMAIN signal_info[1].details = {}

\* detect_signal has returned for two candles that rise by 2 % in low, close
\* and high.
C18_Witness ==
    /\ signal_info # None
    /\ Len(klines) = 2
    /\ klines[1].low < klines[2].low
    /\ klines[1].high < klines[2].high
    /\ klines[2].close * 100 >= klines[1].close * 102
    /\ klines[1].close > 0

(***************************************************************************)
(* SpecTrend: analyze_trend applied to a close and a map of EMA values      *)
(***************************************************************************)

\* config: ema_periods
ema_periods == {20, 60, 120, 250}

\* EMA values around the latest close PriceBase, and the 0.0 that stands for
\* an EMA that is not defined
EmaLevels == {Zero} \cup {ToFloat(PriceBase + d) : d \in {-1, 0, 1, 2}}
EmaMaps == UNION {[periods -> EmaLevels] : periods \in SUBSET ema_periods}
TrendKlines == {<<>>, <<Candle(PriceBase)>>}

InitTrend ==
    /\ InitCacheVars
    /\ InitLaterIdle
    /\ InitConfIdle
    /\ upstream_tickers = <<>>
    /\ InitPipeIdle
    /\ klines \in TrendKlines
    /\ signal_info = None
    /\ processed = None
    /\ ema_values \in EmaMaps
    /\ trend_info = None

\* analyze_trend(klines, ema_values)
AnalyzeTrend ==
    /\ trend_info = None
    /\ trend_info' = Some(analyze_trend(klines, ema_values))
    /\ UNCHANGED <<ema_values, cacheVars, signalVars, confVars, pipeVars, publishVars,
                   refreshVars, laterVars>>

NextTrend == AnalyzeTrend

SpecTrend == InitTrend /\ [][NextTrend]_vars

\* C19: with at least two EMA periods taking part (klines given, the value
\* not 0), the trend is strong_bullish iff every position is above,
\* strong_bearish iff every position is below, and otherwise bullish iff the
\* EMA values strictly decrease as the period increases, bearish iff they
\* strictly increase, and neutral in every remaining case; a position is above
\* iff the latest close is greater than the EMA value.
C19_TrendByPositionsAndAlignment ==
    (/\ trend_info # None
     /\ klines # <<>>
     /\ Cardinality({p \in DOMAIN ema_values : ema_values[p][1] # 0}) >= 2) =>
        LET r == trend_info[1]
            P == DOMAIN r.ema_positions
            close == klines[Len(klines)].close
            value(p) == r.ema_positions[p].value
            above(p) == r.ema_positions[p].position = "above"
            below(p) == r.ema_positions[p].position = "below"
            allAbove == \A p \in P : above(p)
            allBelow == \A p \in P : below(p)
            falling == \A p, q \in P : p < q => value(q)[1] * value(p)[2] < value(p)[1] * value(q)[2]
            rising == \A p, q \in P : p < q => value(p)[1] * value(q)[2] < value(q)[1] * value(p)[2]
        IN /\ P = {p \in DOMAIN ema_values : ema_values[p][1] # 0}
           /\ \A p \in P : /\ value(p) = ema_values[p]
                           /\ above(p) \/ below(p)
                           /\ above(p) <=> close * value(p)[2] > value(p)[1]
           /\ r.trend \in {"strong_bullish", "strong_bearish", "bullish", "bearish", "neutral"}
           /\ r.trend = "strong_bullish" <=> allAbove
           /\ r.trend = "strong_bearish" <=> allBelow
           /\ r.trend = "bullish" <=> (~allAbove /\ ~allBelow /\ falling)
           /\ r.trend = "bearish" <=> (~allAbove /\ ~allBelow /\ rising)

\* analyze_trend has returned bullish for three periods of which one EMA
\* equals the latest close (position below) and one lies under it.
C19_Witness ==
    /\ trend_info # None
    /\ klines # <<>>
    /\ DOMAIN trend_info[1].ema_positions = {20, 60, 120}
    /\ trend_info[1].trend = "bullish"
    /\ trend_info[1].ema_positions[60].value = ToFloat(klines[Len(klines)].close)
    /\ trend_info[1].ema_positions[60].position = "below"
    /\ trend_info[1].ema_positions[120].position = "above"

(***************************************************************************)
(* Malformed tickers, checked under SpecFilter                             *)
(***************************************************************************)

\* C20: for any ticker list, a ticker with a field that is no number never
\* makes a filter raise, and the well-formed tickers that meet the thresholds
\* are still kept.
C20_MalformedTickerNeverFatal ==
    /\ raised_by = {}
    /\ refresh_pc # "failed"
    /\ refresh_pc = "batch" =>
          \A i \in 1..Len(upstream_tickers) :
              WellFormed(upstream_tickers[i]) /\ TickerMeetsBoth(upstream_tickers[i])
                  => \E j \in 1..Len(filtered_symbols) :
                        filtered_symbols[j].symbol = upstream_tickers[i].symbol

(***************************************************************************)
(* SpecKey: _get_cache_key called twice                                    *)
(***************************************************************************)

\* The most keyword arguments a call gives.
MaxParams == 3

\* Operation names ("k", "ft"), parameter names ("s", "i", "st") and the
\* values each is given.
KeyTypes == {<<"k">>, <<"f", "t">>}
ParamNames == {<<"s">>, <<"i">>, <<"s", "t">>}
ParamValues(name) == IF name = <<"s", "t">> THEN {<<"a">>} ELSE {<<"B">>, <<"a">>}

\* Keyword arguments in call-site order: no name twice.
KwargsOfLen(n) ==
    {kw \in [1..n -> {<<name, v>> : name \in ParamNames, v \in {<<"B">>, <<"a">>}}] :
        /\ \A i \in 1..n : kw[i][2] \in ParamValues(kw[i][1])
        /\ \A i, j \in 1..n : i # j => kw[i][1] # kw[j][1]}
Kwargs == UNION {KwargsOfLen(n) : n \in 0..MaxParams}

InitKey ==
    /\ Init

\* One call of _get_cache_key(key_type, **kwargs)
GetCacheKey(key_type, kwargs) ==
    /\ Len(key_calls) < 2
    /\ key_calls' = Append(key_calls, [key_type |-> key_type, kwargs |-> kwargs])
    /\ key_results' = Append(key_results, _get_cache_key(key_type, kwargs))
    /\ UNCHANGED <<cacheVars, signalVars, confVars, pipeVars, publishVars, refreshVars,
                   trendVars, laterButKey>>

NextKey == \E key_type \in KeyTypes, kwargs \in Kwargs : GetCacheKey(key_type, kwargs)

SpecKey == InitKey /\ [][NextKey]_vars

\* The set of (name, value) pairs a call gives.
ParamSet(kwargs) == {kwargs[i] : i \in 1..Len(kwargs)}

\* C21: two calls of _get_cache_key with the same operation name and the same
\* (parameter name, value) pairs, in whatever order each gives them, return
\* the identical key string.
C21_KeyIgnoresParameterOrder ==
    \A i, j \in 1..Len(key_calls) :
        (/\ key_calls[i].key_type = key_calls[j].key_type
         /\ ParamSet(key_calls[i].kwargs) = ParamSet(key_calls[j].kwargs))
            => key_results[i] = key_results[j]

\* Two calls gave the same three parameters in different orders, neither in
\* sorted order, and got the same key.
C21_Witness ==
    /\ Len(key_calls) = 2
    /\ key_calls[1].key_type = key_calls[2].key_type
    /\ Len(key_calls[1].kwargs) = 3
    /\ key_calls[1].kwargs # key_calls[2].kwargs
    /\ ParamSet(key_calls[1].kwargs) = ParamSet(key_calls[2].kwargs)
    /\ key_calls[1].kwargs[1][1] = <<"s", "t">>
    /\ key_calls[2].kwargs[1][1] = <<"s">>
    /\ key_calls[2].kwargs[2][1] = <<"i">>
    /\ key_results[1] = key_results[2]

(***************************************************************************)
(* SpecStats: get_cache_stats of a request handler beside the worker's     *)
(* cache operations on the shared fetcher                                  *)
(***************************************************************************)

\* get_cache_stats, line 257: total_entries = len(self.cache)
GetCacheStatsLen ==
    /\ stats_call = None
    /\ stats_call' = Some(Cardinality(DOMAIN cache))
    /\ ret' = NoCall
    /\ UNCHANGED <<now, cache, inflight, puts>>
    /\ UNCHANGED <<signalVars, confVars, pipeVars, publishVars, refreshVars, trendVars,
                   laterButStats>>

\* get_cache_stats, lines 258-276: the clock is read, the entries are counted
\* and the dict is returned.
GetCacheStatsLoop ==
    /\ stats_call # None
    /\ ret' = [op |-> "stats", arg |-> None,
               val |-> Some(get_cache_stats(stats_call[1], cache, now)), old |-> None]
    /\ stats_call' = None
    /\ UNCHANGED <<now, cache, inflight, puts>>
    /\ UNCHANGED <<signalVars, confVars, pipeVars, publishVars, refreshVars, trendVars,
                   laterButStats>>

\* The prefixes the worker's clear_cache is given here.
StatsClearPrefixes == {None, Some(<<"f">>)}

NextStats ==
    \/ Tick
    \/ \E k \in CacheKeys : SetToCacheBuild("worker", k)
    \/ SetToCacheStore("worker")
    \/ \E k \in CacheKeys : GetFromCache(k)
    \/ \E p \in StatsClearPrefixes : ClearCache(p)
    \/ GetCacheStatsLen
    \/ GetCacheStatsLoop

SpecStats == Init /\ [][NextStats]_vars

\* C22: a lookup leaves the storage as it is, also when it misses on an
\* expired entry; an entry is removed only by clear_cache and changed only by
\* a put of its key; and every dict get_cache_stats returns has total_entries
\* = valid_entries + expired_entries with valid_entries the number of stored
\* entries whose age is < cache_duration.
C22_LazyReclaimAndStats ==
    /\ [][/\ ret'.op = "get" => cache' = cache
          /\ \A k \in DOMAIN cache :
                /\ k \notin DOMAIN cache' => ret'.op = "clear"
                /\ (k \in DOMAIN cache' /\ cache'[k] # cache[k])
                      => (ret'.op = "put" /\ ret'.arg = Some(k))]_vars
    /\ [](ret.op = "stats" =>
            /\ ret.val[1].total_entries
                  = ret.val[1].valid_entries + ret.val[1].expired_entries
            /\ ret.val[1].valid_entries
                  = Cardinality({k \in DOMAIN cache :
                                    now - cache[k].timestamp < cache_duration}))

(***************************************************************************)
(* Refresh cycles in flight, checked under SpecRefresh                     *)
(***************************************************************************)

\* Caller c is inside the try block of get_processed_data.
InCycle(c) == call[c].pc \in {"refreshing", "computed", "assigned", "stamped"}

\* C23: at most one refresh cycle is in flight at any time, over the
\* background worker and the other threads that call get_processed_data (the
\* start-up preload thread, the request handlers).
C23_OneCycleInFlight == Cardinality({c \in Callers : InCycle(c)}) <= 1

(***************************************************************************)
(* The cached lookups of DataFetcher (app/api/data_fetcher.py)             *)
(***************************************************************************)

\* The keys of all_futures_symbols ("a") and of the klines of a symbol at the
\* one interval and limit in use.
KeyAllSymbols == get_cache_key(<<"a">>, {})
KlinesKey(symbol) == get_cache_key(<<"k">>, {<<<<"s">>, <<symbol>>>>, <<<<"i">>, <<"q">>>>})

\* DataFetcher.get_all_futures_symbols(use_cache) at clock t when the client
\* answers with upstream ([] on an API error): the value returned, the cache
\* left and whether the client was asked.
get_all_futures_symbols(c, t, upstream, use_cache) ==
    IF use_cache /\ get_from_cache(c, KeyAllSymbols, t) # None
    THEN [value |-> get_from_cache(c, KeyAllSymbols, t)[1], cache |-> c,
          upstream_called |-> FALSE]
    ELSE [value |-> upstream,
          cache |-> IF stores_result(use_cache, upstream)
                    THEN set_to_cache(c, KeyAllSymbols, NewEntry(upstream, t))
                    ELSE c,
          upstream_called |-> TRUE]

\* DataFetcher.get_klines(symbol, use_cache) at clock t, likewise
get_klines(c, t, symbol, upstream, use_cache) ==
    IF use_cache /\ get_from_cache(c, KlinesKey(symbol), t) # None
    THEN [value |-> get_from_cache(c, KlinesKey(symbol), t)[1], cache |-> c,
          upstream_called |-> FALSE]
    ELSE [value |-> upstream,
          cache |-> IF stores_result(use_cache, upstream)
                    THEN set_to_cache(c, KlinesKey(symbol), NewEntry(upstream, t))
                    ELSE c,
          upstream_called |-> TRUE]

\* What a fetcher call leaves in ret: the method, its key and arguments, the
\* client's answer, the value returned and whether the client was asked.
FetchCall(method, key, use_cache, upstream, value, upstream_called) ==
    [op |-> "fetch",
     arg |-> Some([method |-> method, key |-> key, use_cache |-> use_cache,
                   upstream |-> upstream]),
     val |-> Some([value |-> value, upstream_called |-> upstream_called]),
     old |-> None]

\* data_fetcher.get_klines(symbol, use_cache=use_cache), as get_symbol_data
\* calls it for a request handler
FetcherGetKlines(symbol, use_cache, upstream) ==
    /\ LET fetch == get_klines(cache, now, symbol, upstream, use_cache)
       IN /\ cache' = fetch.cache
          /\ ret' = FetchCall("get_klines", KlinesKey(symbol), use_cache, upstream,
                              fetch.value, fetch.upstream_called)
    /\ UNCHANGED <<now, inflight, puts>>
    /\ UNCHANGED <<signalVars, confVars, pipeVars, publishVars, refreshVars, trendVars,
                   laterVars>>

(***************************************************************************)
(* SpecCandles: one refresh beside a request handler that reads the klines *)
(* of the same symbol through the fetcher                                  *)
(***************************************************************************)

\* The series the client answers a request handler with.
HandlerKlines == {<<>>, ShortSeries, SeriesEnding(<<0, 1, 3>>)}

InitCandles ==
    /\ InitCacheVars
    /\ InitLaterIdle
    /\ InitSignalIdle
    /\ InitConfIdle
    /\ upstream_tickers = CycleTickers
    /\ InitPipeIdle
    /\ InitTrendIdle

NextCandles ==
    \/ Tick
    \/ \E upstream \in HandlerKlines : FetcherGetKlines("A", TRUE, upstream)
    \/ GetFilteredSymbols(TRUE)
    \/ \E outcome \in FetchOutcomes : ProcessNextSymbol(outcome)
    \/ ReturnResults
    \/ PublishBundle

SpecCandles == InitCandles /\ [][NextCandles]_vars

\* C24: in a pass of the loop of process_multiple_symbols the candle series
\* of the symbol comes through the expiring cache: the client is asked only
\* when the cache holds no valid klines entry for the symbol, and a series the
\* client returned is stored as that entry.
C24_CandlesThroughCache ==
    [][(refresh_pc = "batch" /\ batch_i' # batch_i) =>
          LET symbol == symbols[batch_i]
          IN /\ ~is_cache_valid(cache, KlinesKey(symbol), now)
             /\ (~fetched'[symbol].raised /\ fetched'[symbol].klines # <<>>) =>
                   /\ KlinesKey(symbol) \in DOMAIN cache'
                   /\ cache'[KlinesKey(symbol)].data = fetched'[symbol].klines]_vars

(***************************************************************************)
(* Zero EMA values, checked under SpecTrend                                *)
(***************************************************************************)

\* The periods of a map whose EMA value is not 0, and the map without the
\* others.
NonZeroPeriods(emas) == {p \in DOMAIN emas : emas[p][1] # 0}
WithoutZeros(emas) == [p \in NonZeroPeriods(emas) |-> emas[p]]

\* C25: analyze_trend gives no position to a period whose EMA value is 0 and
\* decides the trend as if that period had not been given; the trend is
\* neutral whenever fewer than two periods remain, and neutral with no
\* positions when klines is empty.
C25_ZeroEmaLeftOut ==
    trend_info # None =>
        IF klines = <<>>
        THEN /\ trend_info[1].trend = "neutral"
             /\ DOMAIN trend_info[1].ema_positions = {}
        ELSE /\ DOMAIN trend_info[1].ema_positions = NonZeroPeriods(ema_values)
             /\ trend_info[1] = analyze_trend(klines, WithoutZeros(ema_values))
             /\ Cardinality(NonZeroPeriods(ema_values)) < 2 =>
                   trend_info[1].trend = "neutral"

\* analyze_trend was given candles and three periods, two of them with an EMA
\* of 0, and returned neutral with the one position left.
C25_Witness ==
    /\ trend_info # None
    /\ klines # <<>>
    /\ Cardinality(DOMAIN ema_values) = 3
    /\ Cardinality(NonZeroPeriods(ema_values)) = 1
    /\ DOMAIN trend_info[1].ema_positions = NonZeroPeriods(ema_values)
    /\ trend_info[1].trend = "neutral"

(***************************************************************************)
(* Relative strength index (app/core/indicators.py)                        *)
(***************************************************************************)

\* np.diff(prices)
diff(prices) == [i \in 1..(Len(prices) - 1) |-> prices[i + 1] - prices[i]]

\* seed[seed >= 0].sum() and -seed[seed < 0].sum() for seed = deltas[:period]
RECURSIVE seed_gains(_, _)
seed_gains(deltas, period) ==
    IF period = 0 THEN 0
    ELSE seed_gains(deltas, period - 1) + (IF deltas[period] >= 0 THEN deltas[period] ELSE 0)
RECURSIVE seed_losses(_, _)
seed_losses(deltas, period) ==
    IF period = 0 THEN 0
    ELSE seed_losses(deltas, period - 1) + (IF deltas[period] < 0 THEN 0 - deltas[period] ELSE 0)

\* (avg * (period - 1) + value) / period
wilder(avg, value, period) ==
    RatDiv(RatAdd(RatMul(avg, ToFloat(period - 1)), ToFloat(value)), ToFloat(period))

\* 100.0 if down == 0, else 100.0 - (100.0 / (1.0 + up / down))
rsi_of(up, down) ==
    IF down = Zero THEN Hundred
    ELSE RatSub(Hundred, RatDiv(Hundred, RatAdd(One, RatDiv(up, down))))

\* The averages after the seed
seed_step(deltas, period) ==
    LET up == RatDiv(ToFloat(seed_gains(deltas, period)), ToFloat(period))
        down == RatDiv(ToFloat(seed_losses(deltas, period)), ToFloat(period))
    IN [up |-> up, down |-> down, rsi |-> rsi_of(up, down)]

\* The loop over deltas[i], ..., deltas[Len(deltas)] from the averages in step
RECURSIVE roll(_, _, _, _)
roll(step, deltas, i, period) ==
    IF i > Len(deltas) THEN step
    ELSE LET delta == deltas[i]
             up_val == IF delta > 0 THEN delta ELSE 0
             down_val == IF delta > 0 THEN 0 ELSE 0 - delta
             up == wilder(step.up, up_val, period)
             down == wilder(step.down, down_val, period)
         IN roll([up |-> up, down |-> down, rsi |-> rsi_of(up, down)], deltas, i + 1, period)

\* if down == 0: return 100.0 after the seed
seed_returns(down) == down = Zero

\* IndicatorCalculator.calculate_rsi(prices, period)
calculate_rsi(prices, period) ==
    IF Len(prices) < period + 1 THEN ToFloat(50)
    ELSE LET deltas == diff(prices)
             seed == seed_step(deltas, period)
         IN IF seed_returns(seed.down) THEN Hundred
            ELSE roll(seed, deltas, period + 1, period).rsi

(***************************************************************************)
(* SpecRsi: calculate_rsi applied to price series                          *)
(***************************************************************************)

\* The period given and the longest series.
RsiPeriod == 2
MaxPrices == 5

RsiPriceLevels == {100, 101, 102}
RsiSeries == UNION {[1..n -> RsiPriceLevels] : n \in 0..MaxPrices}

InitRsi ==
    /\ InitCacheVars
    /\ InitKeyIdle
    /\ InitStatsIdle
    /\ InitSignalIdle
    /\ InitConfIdle
    /\ upstream_tickers = <<>>
    /\ InitPipeIdle
    /\ InitTrendIdle
    /\ InitNotify(FALSE)
    /\ InitLifecycle
    /\ rsi_prices \in RsiSeries
    /\ rsi_result = None

\* calculate_rsi(prices, period)
CalculateRsi ==
    /\ rsi_result = None
    /\ rsi_result' = Some(calculate_rsi(rsi_prices, RsiPeriod))
    /\ UNCHANGED rsi_prices
    /\ UNCHANGED <<cacheVars, signalVars, confVars, pipeVars, publishVars, refreshVars,
                   trendVars, laterButRsi>>

NextRsi == CalculateRsi

SpecRsi == InitRsi /\ [][NextRsi]_vars

\* The averages after the seed and every remaining delta
LastStep(prices, period) ==
    roll(seed_step(diff(prices), period), diff(prices), period + 1, period)

\* C26: for at least period + 1 prices calculate_rsi returns the value of the
\* last step of the roll that starts from the seed averages and takes in
\* every remaining delta, so it returns 100.0 only when the rolling average
\* loss of that last step is 0.
C26_RsiOfLastStep ==
    (rsi_result # None /\ Len(rsi_prices) >= RsiPeriod + 1) =>
        /\ rsi_result[1] = rsi_of(LastStep(rsi_prices, RsiPeriod).up,
                                  LastStep(rsi_prices, RsiPeriod).down)
        /\ rsi_result[1] = Hundred => LastStep(rsi_prices, RsiPeriod).down = Zero

(***************************************************************************)
(* The freshness stamp, checked under SpecRefresh                          *)
(***************************************************************************)

\* Caller c has assigned _data_cache and not yet _cache_timestamp.
BetweenAssignments(c) == call[c].pc = "assigned"

\* C28: whenever no refresh cycle is between its two publishing assignments,
\* _cache_timestamp is the timestamp field of the published bundle, or both
\* are at their initial values.
C28_StampBelongsToBundle ==
    (\A c \in Callers : ~BetweenAssignments(c)) =>
        IF DOMAIN _data_cache = {}
        THEN _cache_timestamp = 0
        ELSE _cache_timestamp = _data_cache.timestamp

(***************************************************************************)
(* Notifications of new signals                                            *)
(***************************************************************************)

\* SpecNotify: SpecRefresh with the notifier configured
InitNotifyEnabled ==
    /\ InitButNotifier
    /\ InitNotify(TRUE)

SpecNotify == InitNotifyEnabled /\ [][NextRefresh]_vars

\* The call that returned last notified a signal of the side whose signature
\* was in the list of the bundle its own bundle replaced.
NotifiedKnownSignal(side, notified) ==
    \E sig \in signature_set(notified) : <<side, sig>> \in returned.replaced

\* C27: a signal whose signature stays in the published list is notified at
\* most once; a cycle notifies only signals whose signature is absent from the
\* same-side list of the bundle published before its own; and notify_signal
\* is called only by a cycle that has made both publishing assignments.
C27_NotifiedOncePerSignature ==
    /\ [](\A k \in DOMAIN notify_count : notify_count[k] <= 1)
    /\ [](returned.outcome = "refreshed" =>
            /\ ~NotifiedKnownSignal("buy", returned.new_buy_signals)
            /\ ~NotifiedKnownSignal("sell", returned.new_sell_signals))
    /\ [][notify_count' # counts_kept(notify_count, _data_cache') =>
            \E c \in Callers : call[c].pc = "stamped" /\ call'[c].pc = "idle"]_vars

(***************************************************************************)
(* SpecFetcher: the four cached lookups of DataFetcher called in any order *)
(* while the clock advances                                                *)
(***************************************************************************)

\* data_fetcher.get_all_futures_symbols(use_cache=use_cache)
FetcherGetAllFuturesSymbols(use_cache, upstream) ==
    /\ LET fetch == get_all_futures_symbols(cache, now, upstream, use_cache)
       IN /\ cache' = fetch.cache
          /\ ret' = FetchCall("get_all_futures_symbols", KeyAllSymbols, use_cache,
                              upstream, fetch.value, fetch.upstream_called)
    /\ UNCHANGED <<now, inflight, puts>>
    /\ UNCHANGED <<signalVars, confVars, pipeVars, publishVars, refreshVars, trendVars,
                   laterVars>>

\* data_fetcher.get_futures_ticker_24h(use_cache=use_cache)
FetcherGetFuturesTicker(use_cache, upstream) ==
    /\ LET fetch == get_futures_ticker_24h(cache, now, upstream, use_cache)
       IN /\ cache' = fetch.cache
          /\ ret' = FetchCall("get_futures_ticker_24h", KeyTicker, use_cache,
                              upstream, fetch.tickers, fetch.upstream_called)
    /\ UNCHANGED <<now, inflight, puts>>
    /\ UNCHANGED <<signalVars, confVars, pipeVars, publishVars, refreshVars, trendVars,
                   laterVars>>

\* data_fetcher.get_filtered_symbols(use_cache=use_cache), the ticker lookup
\* it makes included
FetcherGetFilteredSymbols(use_cache, upstream) ==
    /\ ~get_filtered_symbols_raises(cache, now, upstream, use_cache)
    /\ LET fetch == get_filtered_symbols(cache, now, upstream, use_cache)
       IN /\ cache' = fetch.cache
          /\ ret' = FetchCall("get_filtered_symbols", KeyFiltered, use_cache,
                              upstream, fetch.result, fetch.upstream_called)
    /\ UNCHANGED <<now, inflight, puts>>
    /\ UNCHANGED <<signalVars, confVars, pipeVars, publishVars, refreshVars, trendVars,
                   laterVars>>

\* What the client answers: [] (nothing listed, or an API error), or a
\* non-empty list.  Of the ticker lists one has a ticker that passes the
\* thresholds and one has none.
SymbolAnswers == {<<>>, <<<<"A">>>>}
QuietTickers ==
    <<Ticker("A", Variant(Num(ToFloat(1000)), Num(Rat(1, 20)), Num(One)))>>
TickerAnswers == {<<>>, CycleTickers, QuietTickers}
KlinesAnswers == {<<>>, ShortSeries}

NextFetcher ==
    \/ Tick
    \/ \E use_cache \in BOOLEAN, upstream \in SymbolAnswers :
          FetcherGetAllFuturesSymbols(use_cache, upstream)
    \/ \E use_cache \in BOOLEAN, upstream \in TickerAnswers :
          FetcherGetFuturesTicker(use_cache, upstream)
    \/ \E use_cache \in BOOLEAN, upstream \in KlinesAnswers :
          FetcherGetKlines("A", use_cache, upstream)
    \/ \E use_cache \in BOOLEAN, upstream \in TickerAnswers :
          FetcherGetFilteredSymbols(use_cache, upstream)

SpecFetcher == Init /\ [][NextFetcher]_vars

\* The fetcher call a ret record describes
IsFetch(r) == r.op = "fetch"
FetchKey(r) == r.arg[1].key
\* It asked the client and the answer was empty.
FetchedNothing(r) == r.val[1].upstream_called /\ r.arg[1].upstream = <<>>

\* The entry of a key holds no result: the list is empty, for the key of
\* get_filtered_symbols the filtered list of the tuple.
HoldsNothing(key, data) ==
    IF key = KeyFiltered THEN data[1] = <<>> ELSE data = <<>>

\* No entry of the cache holds an empty result.
NoEmptyEntry == \A key \in DOMAIN cache : ~HoldsNothing(key, cache[key].data)

\* A fetcher call changes the cache only with use_cache=True and a non-empty
\* answer of the client.
StoresOnlyResults ==
    [][cache' # cache =>
          /\ IsFetch(ret')
          /\ ret'.arg[1].use_cache
          /\ ~FetchedNothing(ret')]_vars

\* C29 as stated: no entry is empty, a call with use_cache=False or with an
\* empty answer leaves the cache as it is, and the call for the same key that
\* follows an empty or failed fetch asks the client again.
C29_NextCallAsksAgain ==
    /\ []NoEmptyEntry
    /\ StoresOnlyResults
    /\ [][(IsFetch(ret) /\ FetchedNothing(ret) /\ IsFetch(ret')
           /\ FetchKey(ret') = FetchKey(ret)) =>
              ret'.val[1].upstream_called]_vars

\* The keys a call of the method may be served from
ServingKeys(r) ==
    IF FetchKey(r) = KeyFiltered THEN {KeyFiltered, KeyTicker} ELSE {FetchKey(r)}

\* C29 amended: no entry is empty, a call with use_cache=False or with an
\* empty answer leaves the cache as it is, an empty or failed fetch made with
\* use_cache=True leaves no valid entry to serve its key, and a call that does
\* not ask the client is served from a valid entry.  The call that follows an
\* empty fetch made with use_cache=False may so be served from the entry that
\* fetch bypassed.
C29_EmptyResultNeverCached ==
    /\ []NoEmptyEntry
    /\ StoresOnlyResults
    /\ []((IsFetch(ret) /\ FetchedNothing(ret) /\ ret.arg[1].use_cache) =>
             \A key \in ServingKeys(ret) : ~is_cache_valid(cache, key, now))
    /\ []((IsFetch(ret) /\ ~ret.val[1].upstream_called) =>
             /\ ret.arg[1].use_cache
             /\ \E key \in ServingKeys(ret) : is_cache_valid(cache, key, now))

\* A call with use_cache=True got an empty answer while the cache held an
\* expired entry for its key, and the entry is still there.
C29_Witness ==
    /\ IsFetch(ret)
    /\ FetchedNothing(ret)
    /\ ret.arg[1].use_cache
    /\ FetchKey(ret) \in DOMAIN cache

(***************************************************************************)
(* SpecLifecycle: start_background_tasks and stop called one after another *)
(* by the main thread, beside the worker threads they create (main.py)     *)
(***************************************************************************)

\* Thread.is_alive(): started and not yet returned from _background_worker
is_alive(ths, i) == ths[i] \notin {"unborn", "dead"}

\* Mutant of the test on entry of start_background_tasks: it never returns
\* early.
already_running_never(thread, ths) == FALSE

\* if self.background_thread and self.background_thread.is_alive(): return
already_running(thread, ths) == thread # 0 /\ is_alive(ths, thread)

\* Mutant of the loop test: while True
worker_continues_always(is_running) == TRUE

\* while self.running
worker_continues(is_running) == is_running

\* The id of the thread threading.Thread(...) creates next
NextThread(ths) == Cardinality({i \in ThreadIds : ths[i] # "unborn"}) + 1

\* start_background_tasks(): returns at once when the thread it holds is
\* alive; else sets running, creates the thread and starts it at the loop test.
StartBackgroundTasks ==
    /\ main_pc = "idle"
    /\ IF already_running(background_thread, threads)
       THEN UNCHANGED <<running, background_thread, threads>>
       ELSE /\ NextThread(threads) <= MaxThreads
            /\ running' = TRUE
            /\ background_thread' = NextThread(threads)
            /\ threads' = [threads EXCEPT ![NextThread(threads)] = "check"]
    /\ UNCHANGED <<main_pc, late_cycles>>
    /\ UNCHANGED <<cacheVars, signalVars, confVars, pipeVars, publishVars, refreshVars,
                   trendVars, laterButLife>>

\* _background_worker: the loop test; the thread ends when it fails.
WorkerCheck(i) ==
    /\ threads[i] = "check"
    /\ threads' = [threads EXCEPT ![i] = IF worker_continues(running) THEN "cycle"
                                         ELSE "dead"]
    /\ UNCHANGED <<running, background_thread, main_pc, late_cycles>>
    /\ UNCHANGED <<cacheVars, signalVars, confVars, pipeVars, publishVars, refreshVars,
                   trendVars, laterButLife>>

\* The cycles thread i ran while running was False, with the one it runs now
CountCycle(i) ==
    [late_cycles EXCEPT ![i] = IF running THEN @ ELSE @ + 1]

\* _background_worker: get_processed_data(force_refresh=True) computes batch
\* and publishes it; the worker goes to sleep.
WorkerRefresh(i, batch) ==
    /\ threads[i] = "cycle"
    /\ _data_cache' = assign_data_cache(_data_cache, new_bundle(batch, now, now))
    /\ _cache_timestamp' = now
    /\ threads' = [threads EXCEPT ![i] = "sleep"]
    /\ late_cycles' = CountCycle(i)
    /\ UNCHANGED <<running, background_thread, main_pc>>
    /\ UNCHANGED <<cacheVars, signalVars, confVars, pipeVars, refreshVars, trendVars,
                   laterButLife>>

\* The same when the cycle fails: get_processed_data returns its error dict,
\* and the worker goes to sleep.
WorkerRefreshFails(i) ==
    /\ threads[i] = "cycle"
    /\ _data_cache' = data_cache_after_failure(_data_cache, error_result(now, "error"))
    /\ threads' = [threads EXCEPT ![i] = "sleep"]
    /\ late_cycles' = CountCycle(i)
    /\ UNCHANGED <<_cache_timestamp, running, background_thread, main_pc>>
    /\ UNCHANGED <<cacheVars, signalVars, confVars, pipeVars, refreshVars, trendVars,
                   laterButLife>>

\* time.sleep returns; the worker is back at the loop test.
WorkerSleepEnds(i) ==
    /\ threads[i] = "sleep"
    /\ threads' = [threads EXCEPT ![i] = "check"]
    /\ UNCHANGED <<running, background_thread, main_pc, late_cycles>>
    /\ UNCHANGED <<cacheVars, signalVars, confVars, pipeVars, publishVars, refreshVars,
                   trendVars, laterButLife>>

\* stop() up to the join: self.running = False
Stop ==
    /\ main_pc = "idle"
    /\ running' = FALSE
    /\ main_pc' = IF background_thread # 0 THEN "joining" ELSE "idle"
    /\ UNCHANGED <<background_thread, threads, late_cycles>>
    /\ UNCHANGED <<cacheVars, signalVars, confVars, pipeVars, publishVars, refreshVars,
                   trendVars, laterButLife>>

\* self.background_thread.join(timeout=10) returns: the thread has ended or
\* ten seconds have passed.
StopJoinReturns ==
    /\ main_pc = "joining"
    /\ main_pc' = "idle"
    /\ UNCHANGED <<running, background_thread, threads, late_cycles>>
    /\ UNCHANGED <<cacheVars, signalVars, confVars, pipeVars, publishVars, refreshVars,
                   trendVars, laterButLife>>

NextLifecycle ==
    \/ StartBackgroundTasks
    \/ Stop
    \/ StopJoinReturns
    \/ \E i \in ThreadIds : WorkerCheck(i)
    \/ \E i \in ThreadIds : \E batch \in CycleBatches(now) : WorkerRefresh(i, batch)
    \/ \E i \in ThreadIds : WorkerRefreshFails(i)
    \/ \E i \in ThreadIds : WorkerSleepEnds(i)

SpecLifecycle == Init /\ [][NextLifecycle]_vars

\* A step of worker i.  Of its refresh cycles the failing one and the one
\* with an empty batch stand for all: a cycle with any batch is enabled when
\* these are and leaves the worker asleep as they do.
WorkerStep(i) ==
    \/ WorkerCheck(i)
    \/ WorkerRefresh(i, <<>>)
    \/ WorkerRefreshFails(i)
    \/ WorkerSleepEnds(i)

\* A started thread is scheduled, and each refresh cycle and each sleep ends.
SpecLifecycleFair ==
    SpecLifecycle /\ \A i \in ThreadIds : WF_vars(WorkerStep(i))

\* C30: a worker runs at most one refresh cycle while running is False;
\* once running is False a worker that is alive ends; and at most one worker
\* thread is alive at any time.
C30_WorkerEndsAndIsAlone ==
    /\ [](\A i \in ThreadIds : late_cycles[i] <= 1)
    /\ [](Cardinality({i \in ThreadIds : is_alive(threads, i)}) <= 1)
    /\ \A i \in ThreadIds :
          (~running /\ is_alive(threads, i)) ~> ~is_alive(threads, i)

\* stop() was called just after a worker passed its loop test: the worker ran
\* one more cycle and has ended, and a later start_background_tasks created
\* the next worker.
C30_Witness ==
    /\ late_cycles[1] = 1
    /\ threads[1] = "dead"
    /\ is_alive(threads, 2)

====
